---- MODULE Spec2Model ----
(***************************************************************************)
(* Cluster orchestration of etcd-play (package proc): the node lifecycle   *)
(* of NodeWebLocal and NodeWebRemoteClient, the name-indexed delegation of *)
(* defaultCluster, Revive, Bootstrap and Shutdown.                         *)
(*                                                                         *)
(* Every goroutine is a task with a program counter.  A step is one        *)
(* critical section of the code (Lock ... Unlock) or the unlocked code     *)
(* between two critical sections, so that the check-then-act structure of  *)
(* the lifecycle methods is kept.  An unbuffered channel send and its      *)
(* receive are one step (a rendezvous).                                    *)
(***************************************************************************)
EXTENDS Integers, Sequences, FiniteSets, TLC

\* ------------------------------------------------------------ bounds
\* The clock runs from 1 to MaxTime.
MaxTime == 3
\* limitInterval is drawn from 0..MaxInterval.
MaxInterval == 1
\* At most MaxLaunch processes are launched per node.
MaxLaunch == 2
\* At most MaxShutdown invocations of Shutdown.
MaxShutdown == 2
MaxStress == 2
MaxWatch == 2
\* At most MaxChans channels are made by Stream.
MaxChans == 4
\* At most MaxPanic panics are raised.
MaxPanic == 2
\* At most MaxRequests calls of okToRequest are made.
MaxRequests == 10

\* ------------------------------------------------------------ configuration
\* The user ids of the requests (getUserID).
UserIDs == {"w1", "w2"}

\* time.Second, in steps of the clock.
Second == 1

\* The node names (Flags.Name) a cluster is built from; nameToNode holds
\* some of them.
Nodes == {"a", "b"}
\* A name no cluster holds.
Unknown == "zz"
Names == Nodes \cup {Unknown}

\* The zero value of time.Time, the initial lastTerminated / lastRestarted.
ZeroTime == 0

NodeTypes == {"WebLocal", "WebRemote"}

\* The goroutines: the callers of the Cluster interface, the workers
\* Bootstrap spawns (one per node) and the workers Shutdown spawns.
Callers == {<<"caller", "u1">>}
BootWorkers == {<<"boot", n>> : n \in Nodes}
ShutWorkers == {<<"shut", n>> : n \in Nodes}
\* A second caller of the Cluster interface, running at the same time.
Rivals == {<<"caller", "u2">>}
Tasks == Callers \cup Rivals \cup BootWorkers \cup ShutWorkers

LifecycleAPIs == {"Start", "Restart", "Terminate", "Clean"}

VARIABLES
    kind,                \* NodeType given to NewCluster
    nameToNode,          \* the keys of c.nameToNode
    limitInterval,       \* op.limitInterval
    active,              \* nd.active
    PID,                 \* nd.PID: index into procs[n], 0 when never set
    cmd,                 \* nd.cmd: the process handle, 0 when nil
    lastTerminated,      \* nd.lastTerminated
    lastRestarted,       \* nd.lastRestarted
    initialClusterState, \* nd.Flags.InitialClusterState
    now,                 \* time.Now()
    procs,               \* per node, the processes launched for it, in order
    dataDir,             \* per node, whether nd.Flags.DataDir exists on disk
    mu,                  \* c.mu (pmu of every NodeWebLocal): "free" or "leaked"
    task,                \* per goroutine: method, program counter, locals
    ret,                 \* per caller: the last Cluster method return
    ndRet,               \* per goroutine: the last Node method return
    pre,                 \* per caller: the node state when its call began
    hist,                \* per node: what the lifecycle calls returned so far
    bootCn,              \* Bootstrap's cn
    booted,              \* Bootstrap has been invoked
    signalled,           \* Bootstrap received from sc
    wg,                  \* Shutdown's sync.WaitGroup counter
    shutN,               \* number of Shutdown invocations
    probe,               \* per node: the getStatus goroutine of Status, its stat
    nameToStatus,        \* Status's nameToStatus
    statusCn,            \* Status's cn
    statusErr,           \* Status's err
    kv,                  \* the last Endpoints() result and the target resolved from it
    stress,              \* the stress goroutine: its position, stressN, cn, err
    putW,                \* per put goroutine of stress: its position and its put's result
    watch,               \* WatchPut: its position, subscriptions and watcher goroutines
    idToStream,          \* c.idToStream: stream identifier to channel
    chans,               \* the number of channels Stream has made
    streamer,            \* per caller of Stream: its position, identifier, result
    issued,              \* the <<identifier, channel>> pairs Stream has returned
    panics,              \* the number of panics raised inside Node methods
    lines,               \* the number of "panic" lines sent on sharedStream
    users,               \* globalCache.users: user id to requestCount, lastRequestTime
    admitted,            \* per user id: the times at which okToRequest returned true
    okRet                \* the last okToRequest call: its user id and what it returned

nodeVars == <<active, PID, cmd, lastTerminated, lastRestarted, initialClusterState>>
cfgVars == <<kind, nameToNode, limitInterval>>
envVars == <<now, procs, dataDir, mu>>
bootVars == <<bootCn, booted, signalled, shutN>>
statusVars == <<probe, nameToStatus, statusCn, statusErr>>
opVars == <<kv, stress, putW, watch>>
panicVars == <<panics, lines>>
rateVars == <<users, admitted, okRet>>
streamVars == <<idToStream, chans, streamer, issued, panicVars>>
vars == <<kind, nameToNode, limitInterval, active, PID, cmd, lastTerminated, lastRestarted,
          initialClusterState, now, procs, dataDir, mu, task, ret,
          ndRet, pre, hist, bootCn, booted, signalled, wg, shutN,
          probe, nameToStatus, statusCn, statusErr, kv, stress, putW, watch,
          idToStream, chans, streamer, issued, panics, lines,
          users, admitted, okRet>>

\* ------------------------------------------------------------ values
IdleTask ==
    [api |-> "none", name |-> "", op |-> "none", node |-> "", pc |-> "idle",
     sActive |-> FALSE, sLT |-> ZeroTime, sLR |-> ZeroTime, newPid |-> 0,
     todo |-> {}, log |-> <<>>]

NoRet == [api |-> "none", name |-> "", err |-> "none", errNode |-> ""]

NoNdRet == [op |-> "none", node |-> "", err |-> "none"]

\* var emptyStat = ServerStatus{...}
emptyStat ==
    [Name |-> "", ID |-> "unknown", Endpoint |-> "unknown", State |-> "unreachable",
     NumberOfKeys |-> 0, Hash |-> 0]

\* A getStatus goroutine that is not running; at is the value of cn after
\* Status received what the goroutine sent.
IdleProbe == [pc |-> "idle", stat |-> emptyStat, err |-> "nil", at |-> 0, sigs |-> <<>>]

\* make(map[string]ServerStatus)
NoStatus == [n \in {} |-> emptyStat]

\* No Endpoints() result yet.
NoKV ==
    [api |-> "none", name |-> "", pick |-> "", endpoints |-> <<>>,
     nameToEndpoint |-> [n \in {} |-> <<>>], target |-> <<>>,
     activeAt |-> [n \in Nodes |-> FALSE]]

\* The put goroutines of stress, named by their index i.
Puts == 1..MaxStress

\* The stress goroutine before Stress is called: n is stressN, err the
\* variable err that stress and its put goroutines share, val the value it
\* sends on errc.
IdleStress == [pc |-> "idle", n |-> 0, cn |-> 0, err |-> "nil", val |-> "nil"]

\* A put goroutine that is not running: res is what its own put returned,
\* val the value it sends on errChan.
IdlePut == [pc |-> "idle", res |-> "none", val |-> "nil"]

\* The watcher goroutines of WatchPut, named by their index i.
Watchers == 1..MaxWatch

\* WatchPut before it is called: sub is the state of each subscription,
\* w the position of each watcher goroutine, closed whether the deferred
\* function has closed the watch clients, put what the triggering put
\* returned.
IdleWatch ==
    [pc |-> "idle", n |-> 0, sub |-> [i \in Watchers |-> "none"],
     w |-> [i \in Watchers |-> "idle"], closed |-> FALSE, wg |-> 0,
     put |-> "none"]

\* The identifiers Stream is called with and the goroutines that call it.
StreamIDs == {"s1", "s2"}
Streamers == {"v1", "v2"}

\* A goroutine that is not inside Stream: ok is what the map lookup gave,
\* got the channel returned, 0 when none.
IdleStreamer == [pc |-> "idle", id |-> "", ok |-> FALSE, got |-> 0]

\* The fields of every node and what exists outside the program for it.
NodeState ==
    [active |-> active, PID |-> PID, cmd |-> cmd,
     lastTerminated |-> lastTerminated, lastRestarted |-> lastRestarted,
     ics |-> initialClusterState,
     nprocs |-> [n \in Nodes |-> Len(procs[n])], dataDir |-> dataDir]

\* What a caller's call starts from: the nodes and the clock.
Snapshot(t) == [st |-> NodeState, now |-> now, hist |-> hist, shutN |-> shutN]

\* Errors a lifecycle method returns because the process launch, the flag
\* serialization, the signal, the removal or the agent call failed.
EnvErrors == {"FlagsErr", "LaunchErr", "KillErr", "RemoveErr", "AgentErr"}

\* What a NodeWebLocal decides from its fields active, lastRestarted and
\* lastTerminated, given in sh, when op is called on it and every process
\* and file system call succeeds: the error it returns.
LocalVerdict(op, sh) ==
    CASE op = "Start" -> IF sh.active THEN "AlreadyActive" ELSE "nil"
      [] op = "Restart" ->
           IF sh.active THEN "AlreadyActive"
           ELSE IF \/ sh.lastRestarted # ZeroTime /\ now - sh.lastRestarted < limitInterval
                   \/ sh.lastTerminated # ZeroTime /\ now - sh.lastTerminated < limitInterval
                THEN "TooSoon" ELSE "nil"
      [] op = "Terminate" ->
           IF ~sh.active THEN "NotActive"
           ELSE IF \/ sh.lastTerminated # ZeroTime /\ now - sh.lastTerminated < limitInterval
                   \/ sh.lastRestarted # ZeroTime /\ now - sh.lastRestarted < limitInterval
                THEN "TooSoon" ELSE "nil"
      [] op = "Clean" -> IF sh.active THEN "StillActive" ELSE "nil"

\* The fields of that NodeWebLocal after the call.
LocalEffect(op, sh) ==
    LET v == LocalVerdict(op, sh)
    IN  CASE op = "Start" -> [sh EXCEPT !.active = @ \/ v = "nil"]
          [] op = "Restart" ->
               IF v = "nil" THEN [sh EXCEPT !.active = TRUE, !.lastRestarted = now] ELSE sh
          [] op = "Terminate" ->
               IF v = "nil" THEN [sh EXCEPT !.active = FALSE, !.lastTerminated = now] ELSE sh
          [] op = "Clean" -> [sh EXCEPT !.lastTerminated = now]

\* What is recorded per node about the lifecycle calls made on it: S whether
\* a Start or Restart succeeded, R and T the time of the last successful
\* Restart and Terminate, near whether a Restart or Terminate of a local
\* node succeeded less than limitInterval after another.  When track is set, sh holds the fields a
\* NodeWebLocal would have after the same calls at the same times, ok says
\* that no call failed for a reason outside the program, and agree that
\* every call so far returned what that NodeWebLocal returns.
NoHist ==
    [S |-> FALSE, R |-> ZeroTime, T |-> ZeroTime, near |-> FALSE, track |-> FALSE,
     ok |-> TRUE, agree |-> TRUE,
     sh |-> [active |-> FALSE, lastRestarted |-> ZeroTime, lastTerminated |-> ZeroTime]]

\* time.Now().Sub(last) < nd.limitInterval.  Sub saturates at the largest
\* Duration, which the distance from the zero Time to any clock reading
\* exceeds, so a zero timestamp never is too recent.
TooSoon(last) == last # ZeroTime /\ now - last < limitInterval

\* ------------------------------------------------------------ initial state
\* NewCluster: every node inactive, no process, zero timestamps.
InitTracked(members, track) ==
    /\ kind \in NodeTypes
    /\ nameToNode = members
    /\ limitInterval \in 0..MaxInterval
    /\ active = [n \in Nodes |-> FALSE]
    /\ PID = [n \in Nodes |-> 0]
    /\ cmd = [n \in Nodes |-> 0]
    /\ lastTerminated = [n \in Nodes |-> ZeroTime]
    /\ lastRestarted = [n \in Nodes |-> ZeroTime]
    /\ initialClusterState = [n \in Nodes |-> "new"]
    /\ now = 1
    /\ procs = [n \in Nodes |-> <<>>]
    /\ dataDir = [n \in Nodes |-> FALSE]
    /\ mu = "free"
    /\ task = [t \in Tasks |-> IdleTask]
    /\ ret = [t \in Tasks |-> NoRet]
    /\ ndRet = [t \in Tasks |-> NoNdRet]
    /\ hist = [n \in Nodes |-> [NoHist EXCEPT !.track = track]]
    /\ pre = [t \in Tasks |->
                [st |-> NodeState, now |-> 1, hist |-> hist, shutN |-> 0]]
    /\ bootCn = 0
    /\ booted = FALSE
    /\ signalled = FALSE
    /\ wg = 0
    /\ shutN = 0
    /\ probe = [n \in Nodes |-> IdleProbe]
    /\ nameToStatus = NoStatus
    /\ statusCn = 0
    /\ statusErr = "nil"
    /\ kv = NoKV
    /\ stress = IdleStress
    /\ putW = [i \in Puts |-> IdlePut]
    /\ watch = IdleWatch
    /\ idToStream = [id \in {} |-> 0]
    /\ chans = 0
    /\ streamer = [v \in Streamers |-> IdleStreamer]
    /\ issued = {}
    /\ panics = 0
    /\ lines = 0
    /\ users = [u \in {} |-> 0]
    /\ admitted = [u \in UserIDs |-> <<>>]
    /\ okRet = [userID |-> "", ok |-> FALSE, calls |-> 0]

\* The cluster NewCluster returns for the node names in members.
InitNodes(members) == InitTracked(members, FALSE)

\* A cluster of one node.
Init == InitNodes({"a"})

\* ------------------------------------------------------------ return paths
\* What a goroutine does with the error a Node method returns to it:
\* defaultCluster.Start/Restart/Terminate/Clean return it to their caller,
\* Revive returns a non-nil error and otherwise goes on with the next node,
\* a Bootstrap worker sends on errC or on done, a Shutdown worker logs the
\* error, calls Clean after Terminate and wg.Done() after Clean.
\* Revive going on to the next node after a Restart that failed.
ReviveContinues(e) == FALSE

\* if err := nd.Restart(); err != nil { return err } in Revive's second loop.
ReviveStops(e) == e # "nil"

AfterNodeCall(t, e) ==
    LET tk == task[t]
        lg == Append(tk.log, <<tk.op, tk.node, e>>)
    IN  CASE tk.api \in LifecycleAPIs ->
               /\ task' = [task EXCEPT ![t] = IdleTask]
               /\ ret' = [ret EXCEPT ![t] =
                            [api |-> tk.api, name |-> tk.name, err |-> e, errNode |-> ""]]
               /\ wg' = wg
          [] tk.api = "Revive" ->
               IF ReviveStops(e)
               THEN /\ task' = [task EXCEPT ![t] = [IdleTask EXCEPT !.log = lg]]
                    /\ ret' = [ret EXCEPT ![t] =
                                 [api |-> "Revive", name |-> "", err |-> e, errNode |-> ""]]
                    /\ wg' = wg
               ELSE /\ task' = [task EXCEPT ![t] = [tk EXCEPT !.pc = "next", !.log = lg]]
                    /\ UNCHANGED <<ret, wg>>
          [] tk.api = "BootWorker" ->
               /\ task' = [task EXCEPT ![t] =
                             [tk EXCEPT !.pc = IF e = "nil" THEN "sendDone" ELSE "sendErr",
                                        !.log = lg]]
               /\ UNCHANGED <<ret, wg>>
          [] tk.api = "ShutWorker" ->
               IF tk.op = "Terminate"
               THEN /\ task' = [task EXCEPT ![t] =
                                  [tk EXCEPT !.op = "Clean",
                                             !.pc = IF kind = "WebRemote" THEN "act" ELSE "snap",
                                             !.log = lg]]
                    /\ UNCHANGED <<ret, wg>>
               ELSE /\ task' = [task EXCEPT ![t] = [tk EXCEPT !.pc = "finished", !.log = lg]]
                    /\ wg' = wg - 1
                    /\ UNCHANGED ret

\* A Node method returns error e ("nil" for success) to goroutine t.
NodeReturn(t, e) ==
    LET tk == task[t]
        n == tk.node
    IN  /\ ndRet' = [ndRet EXCEPT ![t] = [op |-> tk.op, node |-> n, err |-> e]]
        /\ hist' = [hist EXCEPT ![n] =
                      [S |-> @.S \/ (e = "nil" /\ tk.op \in {"Start", "Restart"}),
                       R |-> IF e = "nil" /\ tk.op = "Restart" THEN now ELSE @.R,
                       T |-> IF e = "nil" /\ tk.op = "Terminate" THEN now ELSE @.T,
                       near |-> @.near \/ (/\ kind = "WebLocal"
                                            /\ e = "nil"
                                            /\ tk.op \in {"Restart", "Terminate"}
                                            /\ \/ @.R # ZeroTime /\ now - @.R < limitInterval
                                               \/ @.T # ZeroTime /\ now - @.T < limitInterval),
                       track |-> @.track,
                       ok |-> @.ok /\ (@.track => e \notin EnvErrors),
                       agree |-> @.agree /\ (@.track /\ @.ok /\ e \notin EnvErrors
                                                => e = LocalVerdict(tk.op, @.sh)),
                       sh |-> IF @.track /\ @.ok /\ e \notin EnvErrors
                              THEN LocalEffect(tk.op, @.sh) ELSE @.sh]]
        /\ AfterNodeCall(t, e)

\* A step inside a Node method that does not return.
Goto(t, tk) ==
    /\ task' = [task EXCEPT ![t] = tk]
    /\ UNCHANGED <<ret, ndRet, hist, wg>>

\* ------------------------------------------------------------ the processes
\* cmd.Start() / Agent.Start / Agent.Restart succeeding: one more process,
\* which creates its data directory.
Launch(n) ==
    /\ procs' = [procs EXCEPT ![n] = Append(@, "running")]
    /\ dataDir' = [dataDir EXCEPT ![n] = TRUE]

CanLaunch(n) == Len(procs[n]) < MaxLaunch

\* syscall.Kill(pid, SIGTERM) succeeds on a process that has not been reaped.
KillOk(n, pid) == pid \in 1..Len(procs[n]) /\ procs[n][pid] # "exited"

Signal(n, pid) == procs' = [procs EXCEPT ![n][pid] = "signalled"]

\* ------------------------------------------------------------ the checks
\* Start and Restart without their check of the active flag.
AlreadyActiveUnchecked(tk) == FALSE

\* if active { return "... is already running or requested to restart" }
\* (Start and Restart of both variants).
AlreadyActive(tk) == tk.sActive

\* Terminate without its check of the active flag.
NotActiveUnchecked(tk) == FALSE

\* if !active { return "... is already terminated ..." } (Terminate).
NotActive(tk) == ~tk.sActive

\* Clean without its check of the active flag.
StillActiveUnchecked(tk) == FALSE

\* if active { return ... } in Clean.
StillActive(tk) == tk.sActive

\* Restart checking only the time since the last restart.
RestartTooSoonOneWay(tk) == TooSoon(tk.sLR)

\* Restart's two cool-down checks, on the timestamps it read under the lock.
RestartTooSoon(tk) == TooSoon(tk.sLR) \/ TooSoon(tk.sLT)

\* Terminate checking only the time since the last terminate.
TerminateTooSoonOneWay(tk) == TooSoon(tk.sLT)

\* Terminate's two cool-down checks.
TerminateTooSoon(tk) == TooSoon(tk.sLT) \/ TooSoon(tk.sLR)

\* ------------------------------------------------------------ NodeWebLocal
\* Start, Restart, Terminate: the first critical section reads the fields.
LocalSnapshot(t) ==
    LET tk == task[t]
        n == tk.node
    IN  /\ kind = "WebLocal"
        /\ tk.pc = "snap"
        /\ tk.op \in {"Start", "Restart", "Terminate"}
        /\ mu = "free"
        /\ Goto(t, [tk EXCEPT !.pc = "act", !.sActive = active[n],
                              !.sLT = lastTerminated[n], !.sLR = lastRestarted[n]])
        /\ UNCHANGED <<nodeVars, cfgVars, rateVars, streamVars, statusVars, opVars, envVars, ret, pre, bootVars>>

\* Clean: the first critical section also stamps lastTerminated.
LocalCleanSnapshot(t) ==
    LET tk == task[t]
        n == tk.node
    IN  /\ kind = "WebLocal"
        /\ tk.pc = "snap"
        /\ tk.op = "Clean"
        /\ mu = "free"
        /\ lastTerminated' = [lastTerminated EXCEPT ![n] = now]
        /\ Goto(t, [tk EXCEPT !.pc = "act", !.sActive = active[n]])
        /\ UNCHANGED <<active, PID, cmd, lastRestarted, initialClusterState,
                       cfgVars, rateVars, streamVars, statusVars, opVars, envVars, pre, bootVars>>

\* Start from the active check to cmd.Start().  A failing Flags.String()
\* returns between pmu.Lock() and pmu.Unlock().
LocalStart(t) ==
    LET tk == task[t]
        n == tk.node
    IN  /\ kind = "WebLocal"
        /\ tk.pc = "act"
        /\ tk.op = "Start"
        /\ IF AlreadyActive(tk)
           THEN /\ NodeReturn(t, "AlreadyActive")
                /\ UNCHANGED <<procs, dataDir, mu>>
           ELSE /\ mu = "free"
                /\ \/ /\ mu' = "leaked"
                      /\ NodeReturn(t, "FlagsErr")
                      /\ UNCHANGED <<procs, dataDir>>
                   \/ /\ NodeReturn(t, "LaunchErr")
                      /\ UNCHANGED <<procs, dataDir, mu>>
                   \/ /\ CanLaunch(n)
                      /\ Launch(n)
                      /\ Goto(t, [tk EXCEPT !.pc = "commit", !.newPid = Len(procs[n]) + 1])
                      /\ UNCHANGED mu
        /\ UNCHANGED <<nodeVars, cfgVars, rateVars, streamVars, statusVars, opVars, now, pre, bootVars>>

LocalStartCommit(t) ==
    LET tk == task[t]
        n == tk.node
    IN  /\ kind = "WebLocal"
        /\ tk.pc = "commit"
        /\ tk.op = "Start"
        /\ mu = "free"
        /\ cmd' = [cmd EXCEPT ![n] = tk.newPid]
        /\ PID' = [PID EXCEPT ![n] = tk.newPid]
        /\ active' = [active EXCEPT ![n] = TRUE]
        /\ NodeReturn(t, "nil")
        /\ UNCHANGED <<lastTerminated, lastRestarted, initialClusterState,
                       cfgVars, rateVars, streamVars, statusVars, opVars, envVars, pre, bootVars>>

\* Restart from the active check to cmd.Start().
LocalRestart(t) ==
    LET tk == task[t]
        n == tk.node
    IN  /\ kind = "WebLocal"
        /\ tk.pc = "act"
        /\ tk.op = "Restart"
        /\ IF AlreadyActive(tk)
           THEN /\ NodeReturn(t, "AlreadyActive")
                /\ UNCHANGED <<procs, dataDir, mu, initialClusterState>>
           ELSE IF RestartTooSoon(tk)
           THEN /\ NodeReturn(t, "TooSoon")
                /\ UNCHANGED <<procs, dataDir, mu, initialClusterState>>
           ELSE /\ mu = "free"
                /\ initialClusterState' = [initialClusterState EXCEPT ![n] = "existing"]
                /\ \/ /\ mu' = "leaked"
                      /\ NodeReturn(t, "FlagsErr")
                      /\ UNCHANGED <<procs, dataDir>>
                   \/ /\ NodeReturn(t, "LaunchErr")
                      /\ UNCHANGED <<procs, dataDir, mu>>
                   \/ /\ CanLaunch(n)
                      /\ Launch(n)
                      /\ Goto(t, [tk EXCEPT !.pc = "commit", !.newPid = Len(procs[n]) + 1])
                      /\ UNCHANGED mu
        /\ UNCHANGED <<active, PID, cmd, lastTerminated, lastRestarted,
                       cfgVars, rateVars, streamVars, statusVars, opVars, now, pre, bootVars>>

LocalRestartCommit(t) ==
    LET tk == task[t]
        n == tk.node
    IN  /\ kind = "WebLocal"
        /\ tk.pc = "commit"
        /\ tk.op = "Restart"
        /\ mu = "free"
        /\ cmd' = [cmd EXCEPT ![n] = tk.newPid]
        /\ PID' = [PID EXCEPT ![n] = tk.newPid]
        /\ lastRestarted' = [lastRestarted EXCEPT ![n] = now]
        /\ active' = [active EXCEPT ![n] = TRUE]
        /\ NodeReturn(t, "nil")
        /\ UNCHANGED <<lastTerminated, initialClusterState, cfgVars, rateVars, streamVars, statusVars, opVars, envVars,
                       pre, bootVars>>

\* Terminate from the active check to syscall.Kill(nd.PID, SIGTERM).
LocalTerminate(t) ==
    LET tk == task[t]
        n == tk.node
    IN  /\ kind = "WebLocal"
        /\ tk.pc = "act"
        /\ tk.op = "Terminate"
        /\ IF NotActive(tk)
           THEN /\ NodeReturn(t, "NotActive")
                /\ UNCHANGED procs
           ELSE IF TerminateTooSoon(tk)
           THEN /\ NodeReturn(t, "TooSoon")
                /\ UNCHANGED procs
           ELSE IF ~KillOk(n, PID[n])
           THEN /\ NodeReturn(t, "KillErr")
                /\ UNCHANGED procs
           ELSE /\ Signal(n, PID[n])
                /\ Goto(t, [tk EXCEPT !.pc = "commit"])
        /\ UNCHANGED <<nodeVars, cfgVars, rateVars, streamVars, statusVars, opVars, now, dataDir, mu, pre, bootVars>>

LocalTerminateCommit(t) ==
    LET tk == task[t]
        n == tk.node
    IN  /\ kind = "WebLocal"
        /\ tk.pc = "commit"
        /\ tk.op = "Terminate"
        /\ mu = "free"
        /\ lastTerminated' = [lastTerminated EXCEPT ![n] = now]
        /\ active' = [active EXCEPT ![n] = FALSE]
        /\ NodeReturn(t, "nil")
        /\ UNCHANGED <<PID, cmd, lastRestarted, initialClusterState, cfgVars, rateVars, streamVars, statusVars, opVars,
                       envVars, pre, bootVars>>

\* Clean from the active check to os.RemoveAll(nd.Flags.DataDir).
LocalClean(t) ==
    LET tk == task[t]
        n == tk.node
    IN  /\ kind = "WebLocal"
        /\ tk.pc = "act"
        /\ tk.op = "Clean"
        /\ IF StillActive(tk)
           THEN /\ NodeReturn(t, "StillActive")
                /\ UNCHANGED dataDir
           ELSE \/ /\ NodeReturn(t, "RemoveErr")
                   /\ UNCHANGED dataDir
                \/ /\ dataDir' = [dataDir EXCEPT ![n] = FALSE]
                   /\ NodeReturn(t, "nil")
        /\ UNCHANGED <<nodeVars, cfgVars, rateVars, streamVars, statusVars, opVars, now, procs, mu, pre, bootVars>>

\* ------------------------------------------------------------ NodeWebRemoteClient
\* Start, Restart, Terminate: the first critical section reads nd.active.
\* nd.mu is the node's own mutex; each critical section is one step.
RemoteSnapshot(t) ==
    LET tk == task[t]
        n == tk.node
    IN  /\ kind = "WebRemote"
        /\ tk.pc = "snap"
        /\ tk.op \in {"Start", "Restart", "Terminate"}
        /\ Goto(t, [tk EXCEPT !.pc = "act", !.sActive = active[n]])
        /\ UNCHANGED <<nodeVars, cfgVars, rateVars, streamVars, statusVars, opVars, envVars, pre, bootVars>>

\* Start from the active check to Agent.Start(flagSlice...).
RemoteStart(t) ==
    LET tk == task[t]
        n == tk.node
    IN  /\ kind = "WebRemote"
        /\ tk.pc = "act"
        /\ tk.op = "Start"
        /\ IF AlreadyActive(tk)
           THEN /\ NodeReturn(t, "AlreadyActive")
                /\ UNCHANGED <<procs, dataDir>>
           ELSE \/ /\ NodeReturn(t, "FlagsErr")
                   /\ UNCHANGED <<procs, dataDir>>
                \/ /\ NodeReturn(t, "AgentErr")
                   /\ UNCHANGED <<procs, dataDir>>
                \/ /\ CanLaunch(n)
                   /\ Launch(n)
                   /\ Goto(t, [tk EXCEPT !.pc = "commit", !.newPid = Len(procs[n]) + 1])
        /\ UNCHANGED <<nodeVars, cfgVars, rateVars, streamVars, statusVars, opVars, now, mu, pre, bootVars>>

\* Restart from the active check to Agent.Restart().
RemoteRestart(t) ==
    LET tk == task[t]
        n == tk.node
    IN  /\ kind = "WebRemote"
        /\ tk.pc = "act"
        /\ tk.op = "Restart"
        /\ IF AlreadyActive(tk)
           THEN /\ NodeReturn(t, "AlreadyActive")
                /\ UNCHANGED <<procs, dataDir>>
           ELSE \/ /\ NodeReturn(t, "AgentErr")
                   /\ UNCHANGED <<procs, dataDir>>
                \/ /\ CanLaunch(n)
                   /\ Launch(n)
                   /\ Goto(t, [tk EXCEPT !.pc = "commit", !.newPid = Len(procs[n]) + 1])
        /\ UNCHANGED <<nodeVars, cfgVars, rateVars, streamVars, statusVars, opVars, now, mu, pre, bootVars>>

\* Terminate from the active check to Agent.Stop(), which signals the
\* process the agent runs for the node.
RemoteTerminate(t) ==
    LET tk == task[t]
        n == tk.node
        last == Len(procs[n])
    IN  /\ kind = "WebRemote"
        /\ tk.pc = "act"
        /\ tk.op = "Terminate"
        /\ IF NotActive(tk)
           THEN /\ NodeReturn(t, "NotActive")
                /\ UNCHANGED procs
           ELSE \/ /\ NodeReturn(t, "AgentErr")
                   /\ UNCHANGED procs
                \/ /\ IF KillOk(n, last) THEN Signal(n, last) ELSE UNCHANGED procs
                   /\ Goto(t, [tk EXCEPT !.pc = "commit"])
        /\ UNCHANGED <<nodeVars, cfgVars, rateVars, streamVars, statusVars, opVars, now, dataDir, mu, pre, bootVars>>

\* The last critical section of Start and of Restart.
RemoteStartCommit(t) ==
    LET tk == task[t]
        n == tk.node
    IN  /\ kind = "WebRemote"
        /\ tk.pc = "commit"
        /\ tk.op \in {"Start", "Restart"}
        /\ active' = [active EXCEPT ![n] = TRUE]
        /\ NodeReturn(t, "nil")
        /\ UNCHANGED <<PID, cmd, lastTerminated, lastRestarted, initialClusterState,
                       cfgVars, rateVars, streamVars, statusVars, opVars, envVars, pre, bootVars>>

\* The last critical section of Terminate.
RemoteTerminateCommit(t) ==
    LET tk == task[t]
        n == tk.node
    IN  /\ kind = "WebRemote"
        /\ tk.pc = "commit"
        /\ tk.op = "Terminate"
        /\ active' = [active EXCEPT ![n] = FALSE]
        /\ NodeReturn(t, "nil")
        /\ UNCHANGED <<PID, cmd, lastTerminated, lastRestarted, initialClusterState,
                       cfgVars, rateVars, streamVars, statusVars, opVars, envVars, pre, bootVars>>

\* Clean is Agent.Cleanup() and nothing else.
RemoteClean(t) ==
    LET tk == task[t]
        n == tk.node
    IN  /\ kind = "WebRemote"
        /\ tk.pc = "act"
        /\ tk.op = "Clean"
        /\ \/ /\ NodeReturn(t, "AgentErr")
              /\ UNCHANGED dataDir
           \/ /\ dataDir' = [dataDir EXCEPT ![n] = FALSE]
              /\ NodeReturn(t, "nil")
        /\ UNCHANGED <<nodeVars, cfgVars, rateVars, streamVars, statusVars, opVars, now, procs, mu, pre, bootVars>>

\* One step of a Node method in goroutine t.
NodeStep(t) ==
    \/ LocalSnapshot(t)
    \/ LocalCleanSnapshot(t)
    \/ LocalStart(t)
    \/ LocalStartCommit(t)
    \/ LocalRestart(t)
    \/ LocalRestartCommit(t)
    \/ LocalTerminate(t)
    \/ LocalTerminateCommit(t)
    \/ LocalClean(t)
    \/ RemoteSnapshot(t)
    \/ RemoteStart(t)
    \/ RemoteRestart(t)
    \/ RemoteTerminate(t)
    \/ RemoteStartCommit(t)
    \/ RemoteTerminateCommit(t)
    \/ RemoteClean(t)

\* ------------------------------------------------------------ defaultCluster
\* Where a Node method begins: NodeWebRemoteClient.Clean has no critical section.
EntryPc(op) == IF kind = "WebRemote" /\ op = "Clean" THEN "act" ELSE "snap"

\* c.Restart(name) calling nd.Start().
DelegateStart(api) == IF api = "Restart" THEN "Start" ELSE api

\* The Node method defaultCluster.Start/Restart/Terminate/Clean calls.
Delegate(api) == api

\* A caller invokes c.Start(name), c.Restart(name), c.Terminate(name) or
\* c.Clean(name).
ClusterCall(t, api, name) ==
    /\ task[t].pc = "idle"
    /\ task' = [task EXCEPT ![t] =
                  [IdleTask EXCEPT !.api = api, !.name = name, !.pc = "lookup"]]
    /\ ret' = [ret EXCEPT ![t] = NoRet]
    /\ ndRet' = [ndRet EXCEPT ![t] = NoNdRet]
    /\ pre' = [pre EXCEPT ![t] = Snapshot(t)]
    /\ UNCHANGED <<nodeVars, cfgVars, rateVars, streamVars, statusVars, opVars, envVars, hist, bootVars, wg>>

\* nd, ok := c.nameToNode[name] under c.mu, then the delegation.
Lookup(t) ==
    LET tk == task[t]
    IN  /\ tk.pc = "lookup"
        /\ mu = "free"
        /\ IF tk.name \notin nameToNode
           THEN /\ task' = [task EXCEPT ![t] = IdleTask]
                /\ ret' = [ret EXCEPT ![t] =
                             [api |-> tk.api, name |-> tk.name, err |-> "NotFound",
                              errNode |-> ""]]
           ELSE /\ task' = [task EXCEPT ![t] =
                              [tk EXCEPT !.op = Delegate(tk.api), !.node = tk.name,
                                         !.pc = EntryPc(Delegate(tk.api))]]
                /\ UNCHANGED ret
        /\ UNCHANGED <<nodeVars, cfgVars, rateVars, streamVars, statusVars, opVars, envVars, ndRet, pre, hist, bootVars, wg>>

\* A caller invokes c.Revive().
ReviveCall(t) ==
    /\ task[t].pc = "idle"
    /\ task' = [task EXCEPT ![t] =
                  [IdleTask EXCEPT !.api = "Revive", !.pc = "scan", !.todo = nameToNode]]
    /\ ret' = [ret EXCEPT ![t] = NoRet]
    /\ ndRet' = [ndRet EXCEPT ![t] = NoNdRet]
    /\ pre' = [pre EXCEPT ![t] = Snapshot(t)]
    /\ UNCHANGED <<nodeVars, cfgVars, rateVars, streamVars, statusVars, opVars, envVars, hist, bootVars, wg>>

\* One iteration of Revive's first loop: nd.IsActive() on some node not yet
\* visited (a map is ranged over in no fixed order).
ReviveScan(t) ==
    LET tk == task[t]
    IN  /\ tk.pc = "scan"
        /\ kind = "WebLocal" => mu = "free"
        /\ \E n \in tk.todo :
              IF active[n]
              THEN /\ task' = [task EXCEPT ![t] = IdleTask]
                   /\ ret' = [ret EXCEPT ![t] =
                                [api |-> "Revive", name |-> "", err |-> "nil",
                                 errNode |-> ""]]
              ELSE /\ task' = [task EXCEPT ![t] =
                                 IF tk.todo = {n}
                                 THEN [tk EXCEPT !.pc = "next", !.todo = nameToNode]
                                 ELSE [tk EXCEPT !.todo = @ \ {n}]]
                   /\ UNCHANGED ret
        /\ UNCHANGED <<nodeVars, cfgVars, rateVars, streamVars, statusVars, opVars, envVars, ndRet, pre, hist, bootVars, wg>>

\* One iteration of Revive's second loop: nd.Restart() on some node not yet
\* visited, or return nil after the last one.
ReviveNext(t) ==
    LET tk == task[t]
    IN  /\ tk.pc = "next"
        /\ IF tk.todo = {}
           THEN /\ task' = [task EXCEPT ![t] = [IdleTask EXCEPT !.log = tk.log]]
                /\ ret' = [ret EXCEPT ![t] =
                             [api |-> "Revive", name |-> "", err |-> "nil",
                              errNode |-> ""]]
           ELSE /\ \E n \in tk.todo :
                     task' = [task EXCEPT ![t] =
                                [tk EXCEPT !.op = "Restart", !.node = n,
                                           !.pc = EntryPc("Restart"), !.todo = @ \ {n}]]
                /\ UNCHANGED ret
        /\ UNCHANGED <<nodeVars, cfgVars, rateVars, streamVars, statusVars, opVars, envVars, ndRet, pre, hist, bootVars, wg>>

\* ------------------------------------------------------------ environment
\* The clock advances.
Tick ==
    /\ now < MaxTime
    /\ now' = now + 1
    /\ UNCHANGED <<nodeVars, cfgVars, rateVars, streamVars, statusVars, opVars, procs, dataDir, mu, task, ret,
                   ndRet, pre, hist, bootVars, wg>>

\* A process exits and cmd.Wait() reaps it: after SIGTERM, or on its own.
ProcExit(n, i) ==
    /\ i \in 1..Len(procs[n])
    /\ procs[n][i] # "exited"
    /\ procs' = [procs EXCEPT ![n][i] = "exited"]
    /\ UNCHANGED <<nodeVars, cfgVars, rateVars, streamVars, statusVars, opVars, now, dataDir, mu, task, ret, ndRet, pre,
                   hist, bootVars, wg>>

\* ------------------------------------------------------------ lifecycle calls
\* One caller at a time uses Start, Restart, Terminate, Clean and Revive.
Next ==
    \/ \E t \in Callers, api \in LifecycleAPIs, name \in Names : ClusterCall(t, api, name)
    \/ \E t \in Callers : Lookup(t)
    \/ \E t \in Callers : ReviveCall(t)
    \/ \E t \in Callers : ReviveScan(t)
    \/ \E t \in Callers : ReviveNext(t)
    \/ \E t \in Callers : NodeStep(t)
    \/ Tick
    \/ \E n \in Nodes, i \in 1..MaxLaunch : ProcExit(n, i)

Spec == Init /\ [][Next]_vars

\* ------------------------------------------------------------ Revive alone
\* A cluster of two nodes whose caller starts and terminates nodes and
\* calls Revive.
InitTwo == InitNodes(Nodes)

\* The steps of the Node methods that Start, Terminate and Revive reach.
ReviveStep(t) ==
    \/ LocalSnapshot(t)
    \/ LocalStart(t)
    \/ LocalStartCommit(t)
    \/ LocalRestart(t)
    \/ LocalRestartCommit(t)
    \/ LocalTerminate(t)
    \/ LocalTerminateCommit(t)
    \/ RemoteSnapshot(t)
    \/ RemoteStart(t)
    \/ RemoteRestart(t)
    \/ RemoteTerminate(t)
    \/ RemoteStartCommit(t)
    \/ RemoteTerminateCommit(t)

NextRevive ==
    \/ \E t \in Callers, api \in {"Start", "Terminate"}, name \in Nodes :
          ClusterCall(t, api, name)
    \/ \E t \in Callers : Lookup(t)
    \/ \E t \in Callers : ReviveCall(t)
    \/ \E t \in Callers : ReviveScan(t)
    \/ \E t \in Callers : ReviveNext(t)
    \/ \E t \in Callers : ReviveStep(t)
    \/ Tick

SpecRevive == InitTwo /\ [][NextRevive]_vars

\* ------------------------------------------------------------ Bootstrap, Shutdown
BootWorker(n) == <<"boot", n>>
ShutWorker(n) == <<"shut", n>>

\* A caller invokes c.Bootstrap(): one goroutine per node calls nd.Start().
BootstrapCall(t) ==
    /\ task[t].pc = "idle"
    /\ ~booted
    /\ booted' = TRUE
    /\ bootCn' = 0
    /\ task' = [x \in Tasks |->
                  IF x = t
                  THEN [IdleTask EXCEPT !.api = "Bootstrap", !.pc = "collect"]
                  ELSE IF x \in BootWorkers /\ x[2] \in nameToNode
                  THEN [IdleTask EXCEPT !.api = "BootWorker", !.op = "Start",
                                        !.node = x[2], !.pc = EntryPc("Start")]
                  ELSE task[x]]
    /\ ret' = [ret EXCEPT ![t] = NoRet]
    /\ pre' = [pre EXCEPT ![t] = Snapshot(t)]
    /\ UNCHANGED <<nodeVars, cfgVars, rateVars, streamVars, statusVars, opVars, envVars, ndRet, hist, signalled, shutN, wg>>

\* case <-done: cn++ (the worker's send and this receive).
BootRecvDone(t, w) ==
    /\ task[t].pc = "collect"
    /\ task[w].pc = "sendDone"
    /\ bootCn' = bootCn + 1
    /\ task' = [task EXCEPT
                  ![w] = [@ EXCEPT !.pc = "finished"],
                  ![t] = [@ EXCEPT !.pc = IF bootCn + 1 = Cardinality(nameToNode)
                                          THEN "waitSignal" ELSE "collect"]]
    /\ UNCHANGED <<nodeVars, cfgVars, rateVars, streamVars, statusVars, opVars, envVars, ret, ndRet, pre, hist, booted,
                   signalled, shutN, wg>>

\* The error of a worker named after one node, the same for every worker
\* (the goroutines sharing the loop's variable).
BootErrorLoopVar(w) ==
    [api |-> "Bootstrap", name |-> "", err |-> ndRet[w].err,
     errNode |-> CHOOSE n \in nameToNode : TRUE]

\* fmt.Errorf("%s (%v)", name, err): the error a worker sends on errC.
BootError(w) ==
    [api |-> "Bootstrap", name |-> "", err |-> ndRet[w].err, errNode |-> task[w].node]

\* case err := <-errC: return err (the worker's send and this receive).
BootRecvErr(t, w) ==
    /\ task[t].pc = "collect"
    /\ task[w].pc = "sendErr"
    /\ task' = [task EXCEPT ![w] = [@ EXCEPT !.pc = "finished"], ![t] = IdleTask]
    /\ ret' = [ret EXCEPT ![t] = BootError(w)]
    /\ UNCHANGED <<nodeVars, cfgVars, rateVars, streamVars, statusVars, opVars, envVars, ndRet, pre, hist, bootVars, wg>>

\* wg.Add(len(c.nameToNode)) and one goroutine per node, which calls
\* nd.Terminate() and then nd.Clean().
SpawnShutdown(t, api) ==
    /\ shutN < MaxShutdown
    /\ shutN' = shutN + 1
    /\ wg' = Cardinality(nameToNode)
    /\ task' = [x \in Tasks |->
                  IF x = t
                  THEN [IdleTask EXCEPT !.api = api, !.pc = "wgWait"]
                  ELSE IF x \in ShutWorkers /\ x[2] \in nameToNode
                  THEN [IdleTask EXCEPT !.api = "ShutWorker", !.op = "Terminate",
                                        !.node = x[2], !.pc = EntryPc("Terminate")]
                  ELSE task[x]]

\* s := <-sc; return c.Shutdown()
Interrupt(t) ==
    /\ task[t].pc = "waitSignal"
    /\ signalled' = TRUE
    /\ SpawnShutdown(t, "Bootstrap")
    /\ UNCHANGED <<nodeVars, cfgVars, rateVars, streamVars, statusVars, opVars, envVars, ret, ndRet, pre, hist, bootCn, booted>>

\* A caller invokes c.Shutdown().
ShutdownCall(t) ==
    /\ task[t].pc = "idle"
    /\ SpawnShutdown(t, "Shutdown")
    /\ ret' = [ret EXCEPT ![t] = NoRet]
    /\ pre' = [pre EXCEPT ![t] = Snapshot(t)]
    /\ UNCHANGED <<nodeVars, cfgVars, rateVars, streamVars, statusVars, opVars, envVars, ndRet, hist, bootCn, booted, signalled>>

\* wg.Wait() returning while one worker is still running.
WaitDoneEarly == wg <= 1

\* wg.Wait() returns.
WaitDone == wg = 0

\* wg.Wait(); return nil
ShutdownWait(t) ==
    /\ task[t].pc = "wgWait"
    /\ WaitDone
    /\ task' = [task EXCEPT ![t] = IdleTask]
    /\ ret' = [ret EXCEPT ![t] =
                 [api |-> task[t].api, name |-> "", err |-> "nil", errNode |-> ""]]
    /\ UNCHANGED <<nodeVars, cfgVars, rateVars, streamVars, statusVars, opVars, envVars, ndRet, pre, hist, bootVars, wg>>

\* The steps of the Node methods that the goroutines of Bootstrap and
\* Shutdown reach: Start, Terminate and Clean.
WorkerStep(t) ==
    \/ LocalSnapshot(t)
    \/ LocalCleanSnapshot(t)
    \/ LocalStart(t)
    \/ LocalStartCommit(t)
    \/ LocalTerminate(t)
    \/ LocalTerminateCommit(t)
    \/ LocalClean(t)
    \/ RemoteSnapshot(t)
    \/ RemoteStart(t)
    \/ RemoteTerminate(t)
    \/ RemoteStartCommit(t)
    \/ RemoteTerminateCommit(t)
    \/ RemoteClean(t)

NextBoot ==
    \/ \E t \in Callers : BootstrapCall(t)
    \/ \E t \in Callers, w \in BootWorkers : BootRecvDone(t, w)
    \/ \E t \in Callers, w \in BootWorkers : BootRecvErr(t, w)
    \/ \E t \in Callers : Interrupt(t)
    \/ \E t \in Callers : ShutdownCall(t)
    \/ \E t \in Callers : ShutdownWait(t)
    \/ \E t \in BootWorkers \cup ShutWorkers : WorkerStep(t)
    \/ Tick
    \/ \E n \in Nodes, i \in 1..MaxLaunch : ProcExit(n, i)

SpecBoot == InitTwo /\ [][NextBoot]_vars

\* ------------------------------------------------------------ Shutdown after lifecycle calls
\* A cluster of one node whose caller starts and restarts the node and calls
\* Shutdown.
NextShut ==
    \/ \E t \in Callers, api \in {"Start", "Restart"} : ClusterCall(t, api, "a")
    \/ \E t \in Callers : Lookup(t)
    \/ \E t \in Callers : ShutdownCall(t)
    \/ \E t \in Callers : ShutdownWait(t)
    \/ \E t \in Callers \cup ShutWorkers : NodeStep(t)
    \/ Tick

SpecShut == Init /\ [][NextShut]_vars

\* ------------------------------------------------------------ Status
\* nd.Endpoint() of node n.
Endpoint(n) == <<"grpc", n>>

\* What the three queries of getStatus can answer.
MemberAnswers == {<<"1f", "Leader">>, <<"1f", "Follower">>, <<"unknown", "unreachable">>}
HashAnswers == 0..1
KeysAnswers == 0..1

\* What a failed dial or query sends on errc: the error of the call, or
\* fmt.Errorf("timed out") after time.After(5 * time.Second).
ProbeErrors == {"RpcErr", "TimedOut"}

\* A caller invokes c.Status(): Endpoints() names every node of the cluster,
\* active or not, and one getStatus goroutine is started per name.
StatusCall(t) ==
    /\ task[t].pc = "idle"
    /\ task' = [task EXCEPT ![t] = [IdleTask EXCEPT !.api = "Status", !.pc = "statusCollect"]]
    /\ ret' = [ret EXCEPT ![t] = NoRet]
    /\ probe' = [n \in Nodes |->
                   IF n \in nameToNode THEN [IdleProbe EXCEPT !.pc = "dial"]
                   ELSE IdleProbe]
    /\ nameToStatus' = NoStatus
    /\ statusCn' = 0
    /\ statusErr' = "nil"
    /\ UNCHANGED <<nodeVars, cfgVars, rateVars, streamVars, opVars, envVars, ndRet, pre, hist, bootVars, wg>>

\* A step of getStatus for node n that leaves everything else alone.
ProbeStep(n, p) ==
    /\ probe' = [probe EXCEPT ![n] = p]
    /\ UNCHANGED <<nodeVars, cfgVars, rateVars, streamVars, opVars, envVars, task, ret, ndRet, pre, hist, bootVars,
                   wg, nameToStatus, statusCn, statusErr>>

\* grpc.Dial; stat := emptyStat; stat.Name = name; stat.Endpoint = grpcEndpoint
ProbeDial(n) ==
    /\ probe[n].pc = "dial"
    /\ \/ ProbeStep(n, [probe[n] EXCEPT !.pc = "sendErr", !.err = "RpcErr"])
       \/ ProbeStep(n, [probe[n] EXCEPT !.pc = "memberList",
                                         !.stat = [emptyStat EXCEPT !.Name = n,
                                                                    !.Endpoint = Endpoint(n)]])

\* The MemberList query and the select after it: stat.ID and stat.State are
\* set when the member list names the node.
ProbeMemberList(n) ==
    /\ probe[n].pc = "memberList"
    /\ \/ \E e \in ProbeErrors :
             ProbeStep(n, [probe[n] EXCEPT !.pc = "sendErr", !.err = e])
       \/ \E a \in MemberAnswers :
             ProbeStep(n, [probe[n] EXCEPT !.pc = "hash", !.stat.ID = a[1],
                                           !.stat.State = a[2]])

\* The Hash query and the select after it.
ProbeHash(n) ==
    /\ probe[n].pc = "hash"
    /\ \/ \E e \in ProbeErrors :
             ProbeStep(n, [probe[n] EXCEPT !.pc = "sendErr", !.err = e])
       \/ \E h \in HashAnswers :
             ProbeStep(n, [probe[n] EXCEPT !.pc = "keys", !.stat.Hash = h])

\* The /metrics query and the select after it.
ProbeKeys(n) ==
    /\ probe[n].pc = "keys"
    /\ \/ \E e \in ProbeErrors :
             ProbeStep(n, [probe[n] EXCEPT !.pc = "sendErr", !.err = e])
       \/ \E k \in KeysAnswers :
             ProbeStep(n, [probe[n] EXCEPT !.pc = "sendStat", !.stat.NumberOfKeys = k])

\* getStatus going on with its next query after its send on errc.
GoesOnAfterSend(pc) == IF pc = "sendErr" THEN "keys" ELSE "done"

\* errc <- err; return, and rs <- stat; return: getStatus has ended once
\* its send is received.
ReturnsAfterSend(pc) == "done"

\* case s := <-sc: nameToStatus[s.Name] = s; cn++
StatusRecvStat(t, n) ==
    /\ task[t].pc = "statusCollect"
    /\ statusCn # Cardinality(nameToNode)
    /\ probe[n].pc = "sendStat"
    /\ LET s == probe[n].stat
       IN  nameToStatus' = [m \in DOMAIN nameToStatus \cup {s.Name} |->
                              IF m = s.Name THEN s ELSE nameToStatus[m]]
    /\ statusCn' = statusCn + 1
    /\ probe' = [probe EXCEPT ![n].pc = ReturnsAfterSend(probe[n].pc),
                              ![n].at = statusCn + 1, ![n].sigs = Append(@, "sc")]
    /\ UNCHANGED <<nodeVars, cfgVars, rateVars, streamVars, opVars, envVars, task, ret, ndRet, pre, hist, bootVars,
                   wg, statusErr>>

\* Status keeping the first error it received.
FirstErr(cur, e) == IF cur = "nil" THEN e ELSE cur

\* err = <-errc: the error received replaces the one Status held.
ReceivedErr(cur, e) == e

\* case err = <-errc: cn++
StatusRecvErr(t, n) ==
    /\ task[t].pc = "statusCollect"
    /\ statusCn # Cardinality(nameToNode)
    /\ probe[n].pc = "sendErr"
    /\ statusErr' = ReceivedErr(statusErr, probe[n].err)
    /\ statusCn' = statusCn + 1
    /\ probe' = [probe EXCEPT ![n].pc = ReturnsAfterSend(probe[n].pc),
                              ![n].at = statusCn + 1, ![n].sigs = Append(@, "errc")]
    /\ UNCHANGED <<nodeVars, cfgVars, rateVars, streamVars, opVars, envVars, task, ret, ndRet, pre, hist, bootVars,
                   wg, nameToStatus>>

\* Status returning the map it collected, nothing added.
FillNothing(m) == m

\* The last loop of Status: every name without an entry gets emptyStat with
\* its Name and Endpoint set.
FillMissing(m) ==
    [n \in DOMAIN m \cup nameToNode |->
       IF n \in DOMAIN m THEN m[n]
       ELSE [emptyStat EXCEPT !.Name = n, !.Endpoint = Endpoint(n)]]

\* cn == len(nameToEndpoint): fill the missing entries, return nameToStatus, err
StatusReturn(t) ==
    /\ task[t].pc = "statusCollect"
    /\ statusCn = Cardinality(nameToNode)
    /\ nameToStatus' = FillMissing(nameToStatus)
    /\ task' = [task EXCEPT ![t] = IdleTask]
    /\ ret' = [ret EXCEPT ![t] =
                 [api |-> "Status", name |-> "", err |-> statusErr, errNode |-> ""]]
    /\ UNCHANGED <<nodeVars, cfgVars, rateVars, streamVars, opVars, envVars, ndRet, pre, hist, bootVars, wg,
                   probe, statusCn, statusErr>>

NextStatus ==
    \/ \E t \in Callers : StatusCall(t)
    \/ \E n \in Nodes : ProbeDial(n)
    \/ \E n \in Nodes : ProbeMemberList(n)
    \/ \E n \in Nodes : ProbeHash(n)
    \/ \E n \in Nodes : ProbeKeys(n)
    \/ \E t \in Callers, n \in Nodes : StatusRecvStat(t, n)
    \/ \E t \in Callers, n \in Nodes : StatusRecvErr(t, n)
    \/ \E t \in Callers : StatusReturn(t)

SpecStatus == InitTwo /\ [][NextStatus]_vars

\* Every query of getStatus ends, by its answer or by a timer, and a
\* goroutine that can take a step does take it.
SpecStatusFair ==
    /\ SpecStatus
    /\ \A n \in Nodes :
          WF_vars(ProbeDial(n) \/ ProbeMemberList(n) \/ ProbeHash(n) \/ ProbeKeys(n))
    /\ \A t \in Callers, n \in Nodes : WF_vars(StatusRecvStat(t, n) \/ StatusRecvErr(t, n))
    /\ \A t \in Callers : WF_vars(StatusReturn(t))

\* ------------------------------------------------------------ Endpoints, Put, Get, Delete
\* The endpoint of a node that has none configured.
NoEndpoint == <<>>

\* sort.Strings compares endpoints as strings; the endpoint of node "a"
\* sorts after the endpoint of node "b".
EndpointRank(e) == IF e = Endpoint("a") THEN 2 ELSE 1

\* The sequences that enumerate the set S, each element once: the orders in
\* which a range over a map can visit its keys.
Orders(S) ==
    {q \in [1..Cardinality(S) -> S] :
        \A i, j \in 1..Cardinality(S) : q[i] = q[j] => i = j}

RECURSIVE Insert(_, _)
\* e put before the first element of the sorted sequence q that is not
\* smaller than it.
Insert(e, q) ==
    IF q = <<>> THEN <<e>>
    ELSE IF EndpointRank(e) <= EndpointRank(Head(q)) THEN <<e>> \o q
    ELSE <<Head(q)>> \o Insert(e, Tail(q))

RECURSIVE SortStrings(_)
\* sort.Strings(endpoints)
SortStrings(q) == IF q = <<>> THEN <<>> ELSE Insert(Head(q), SortStrings(Tail(q)))

RECURSIVE ActiveEndpoints(_)
\* The loop of Endpoints over the nodes in the order given: the endpoint of
\* a node is appended if it is not empty and nd.IsActive().
ActiveEndpoints(order) ==
    IF order = <<>> THEN <<>>
    ELSE (IF Endpoint(Head(order)) # NoEndpoint /\ active[Head(order)]
          THEN <<Endpoint(Head(order))>> ELSE <<>>) \o ActiveEndpoints(Tail(order))

\* Endpoints() without its sort.Strings: the endpoints in the order of the loop.
EndpointsUnsorted(order) ==
    [endpoints |-> ActiveEndpoints(order),
     nameToEndpoint |-> [n \in nameToNode |-> Endpoint(n)]]

\* What Endpoints() returns when its loop visits the nodes in the order given.
EndpointsResult(order) ==
    [endpoints |-> SortStrings(ActiveEndpoints(order)),
     nameToEndpoint |-> [n \in nameToNode |-> Endpoint(n)]]

\* if name == "" { for n := range nameToEndpoint { name = n; break } }
Picks(name, m) == IF name = "" /\ DOMAIN m # {} THEN DOMAIN m ELSE {name}

\* The Endpoints() call and the choice of the target that begin Put, Get,
\* Delete, stress and WatchPut: the endpoint of the picked name when the map
\* has it, and otherwise, in stress and WatchPut, all of endpoints.
Resolved(api, name, order, pick) ==
    LET r == EndpointsResult(order)
    IN  [api |-> api, name |-> name, pick |-> pick, endpoints |-> r.endpoints,
         nameToEndpoint |-> r.nameToEndpoint,
         target |-> IF pick \in DOMAIN r.nameToEndpoint
                    THEN <<r.nameToEndpoint[pick]>>
                    ELSE r.endpoints,
         activeAt |-> active]

\* A caller invokes c.Endpoints().
EndpointsCall(t) ==
    /\ task[t].pc = "idle"
    /\ kind = "WebLocal" => mu = "free"
    /\ \E order \in Orders(nameToNode) :
          kv' = Resolved("Endpoints", "", order, "")
    /\ ret' = [ret EXCEPT ![t] =
                 [api |-> "Endpoints", name |-> "", err |-> "nil", errNode |-> ""]]
    /\ UNCHANGED <<nodeVars, cfgVars, rateVars, streamVars, statusVars, envVars, task, ndRet, pre, hist,
                   bootVars, wg, stress, putW, watch>>

\* Some process launched for node n is running, so requests sent to the
\* endpoint of n can be answered.
Serving(n) == \E i \in 1..Len(procs[n]) : procs[n][i] = "running"

\* What a request sent to the endpoints in target can return.
RequestResults(target) ==
    {"DialErr", "RpcErr"} \cup
    (IF \E n \in nameToNode : Serving(n) /\ \E i \in 1..Len(target) : target[i] = Endpoint(n)
     THEN {"nil"} ELSE {})

\* A caller invokes c.Put, c.Get or c.Delete with a node name, possibly empty.
KVCall(t, api, name) ==
    /\ task[t].pc = "idle"
    /\ kind = "WebLocal" => mu = "free"
    /\ \E order \in Orders(nameToNode) :
       \E pick \in Picks(name, EndpointsResult(order).nameToEndpoint) :
          /\ kv' = Resolved(api, name, order, pick)
          /\ IF pick \notin nameToNode
             THEN ret' = [ret EXCEPT ![t] =
                            [api |-> api, name |-> name, err |-> "NotFound",
                             errNode |-> ""]]
             ELSE \E e \in RequestResults(<<Endpoint(pick)>>) :
                     ret' = [ret EXCEPT ![t] =
                               [api |-> api, name |-> name, err |-> e, errNode |-> ""]]
    /\ UNCHANGED <<nodeVars, cfgVars, rateVars, streamVars, statusVars, envVars, task, ndRet, pre, hist,
                   bootVars, wg, stress, putW, watch>>

\* The Node methods that run when only Start and Terminate are called.
KVStep(t) ==
    \/ LocalSnapshot(t)
    \/ LocalStart(t)
    \/ LocalStartCommit(t)
    \/ LocalTerminate(t)
    \/ LocalTerminateCommit(t)
    \/ RemoteSnapshot(t)
    \/ RemoteStart(t)
    \/ RemoteTerminate(t)
    \/ RemoteStartCommit(t)
    \/ RemoteTerminateCommit(t)

KVAPIs == {"Put", "Get", "Delete"}

\* Two nodes that are started and terminated, and callers of Endpoints,
\* Put, Get and Delete.
NextKV ==
    \/ \E t \in Callers, api \in {"Start", "Terminate"}, name \in Nodes :
          ClusterCall(t, api, name)
    \/ \E t \in Callers : Lookup(t)
    \/ \E t \in Callers : KVStep(t)
    \/ \E t \in Callers : EndpointsCall(t)
    \/ \E t \in Callers, api \in KVAPIs, name \in Names \cup {""} : KVCall(t, api, name)

SpecKV == InitTwo /\ [][NextKV]_vars

\* ------------------------------------------------------------ Stress
\* What one put of the burst can return: success, an error of the request,
\* or the expiry of its context.
PutResults == {"nil", "PutErr", "TimedOut"}

\* The process is running: no goroutine has panicked.
Alive == stress.pc # "panicked"

\* A caller invokes c.Stress(name, n): it starts the stress goroutine and
\* waits in its select.
StressCall(t, name, n) ==
    /\ task[t].pc = "idle"
    /\ stress.pc = "idle"
    /\ task' = [task EXCEPT ![t] =
                  [IdleTask EXCEPT !.api = "Stress", !.name = name, !.pc = "stressSelect"]]
    /\ stress' = [IdleStress EXCEPT !.pc = "dial", !.n = n]
    /\ ret' = [ret EXCEPT ![t] = NoRet]
    /\ UNCHANGED <<nodeVars, cfgVars, rateVars, streamVars, statusVars, envVars, ndRet, pre, hist,
                   bootVars, wg, kv, putW, watch>>

\* stress from c.Endpoints() to the start of the put goroutines: a failing
\* clientv3.New is sent on errc, otherwise stressN goroutines are started.
StressDial(name) ==
    /\ Alive
    /\ stress.pc = "dial"
    /\ kind = "WebLocal" => mu = "free"
    /\ \E t \in Callers : task[t].api = "Stress" /\ task[t].name = name
    /\ \E order \in Orders(nameToNode) :
       \E pick \in Picks(name, EndpointsResult(order).nameToEndpoint) :
          kv' = Resolved("Stress", name, order, pick)
    /\ \/ /\ stress' = [stress EXCEPT !.pc = "sendErrc", !.err = "DialErr",
                                      !.val = "DialErr"]
          /\ UNCHANGED putW
       \/ /\ stress' = [stress EXCEPT !.pc = "loop", !.err = "nil", !.cn = 0]
          /\ putW' = [i \in Puts |->
                        IF i <= stress.n THEN [IdlePut EXCEPT !.pc = "put"]
                        ELSE IdlePut]
    /\ UNCHANGED <<nodeVars, cfgVars, rateVars, streamVars, statusVars, envVars, task, ret, ndRet, pre, hist,
                   bootVars, wg, watch>>

\* A step of the Stress machinery that leaves the rest alone.
StressFrame == UNCHANGED <<nodeVars, cfgVars, rateVars, streamVars, statusVars, envVars, ndRet, pre, hist,
                           bootVars, wg, kv, watch>>

\* _, err = kvc.Put(ctx, key, val): the result is assigned to the err of
\* stress, which every put goroutine shares.
PutDo(i) ==
    /\ Alive
    /\ putW[i].pc = "put"
    /\ \E r \in PutResults :
          /\ putW' = [putW EXCEPT ![i] = [@ EXCEPT !.pc = "test", !.res = r]]
          /\ stress' = [stress EXCEPT !.err = r]
    /\ StressFrame
    /\ UNCHANGED <<task, ret>>

\* if err != nil, read from the shared err.
PutTest(i) ==
    /\ Alive
    /\ putW[i].pc = "test"
    /\ putW' = [putW EXCEPT ![i] =
                  [@ EXCEPT !.pc = IF stress.err # "nil" THEN "evalErr" ELSE "sendDone"]]
    /\ StressFrame
    /\ UNCHANGED <<task, ret, stress>>

\* The operand of errChan <- err, read from the shared err.
PutEval(i) ==
    /\ Alive
    /\ putW[i].pc = "evalErr"
    /\ putW' = [putW EXCEPT ![i] = [@ EXCEPT !.pc = "sendErr", !.val = stress.err]]
    /\ StressFrame
    /\ UNCHANGED <<task, ret, stress>>

\* case err := <-errChan: the value is about to be sent on errc.
StressRecvErr(i) ==
    /\ Alive
    /\ stress.pc = "loop"
    /\ stress.cn # stress.n
    /\ putW[i].pc = "sendErr"
    /\ stress' = [stress EXCEPT !.pc = "sendErrc", !.val = putW[i].val]
    /\ putW' = [putW EXCEPT ![i] = [@ EXCEPT !.pc = "finished"]]
    /\ StressFrame
    /\ UNCHANGED <<task, ret>>

\* case <-done: cn++
StressRecvDone(i) ==
    /\ Alive
    /\ stress.pc = "loop"
    /\ stress.cn # stress.n
    /\ putW[i].pc = "sendDone"
    /\ stress' = [stress EXCEPT !.cn = @ + 1]
    /\ putW' = [putW EXCEPT ![i] = [@ EXCEPT !.pc = "finished"]]
    /\ StressFrame
    /\ UNCHANGED <<task, ret>>

\* cn == stressN: pt := tt / time.Duration(stressN) panics when stressN is
\* 0; otherwise stress is about to send on donec.
StressFinish ==
    /\ Alive
    /\ stress.pc = "loop"
    /\ stress.cn = stress.n
    /\ stress' = [stress EXCEPT !.pc = IF stress.n = 0 THEN "panicked" ELSE "sendDonec"]
    /\ StressFrame
    /\ UNCHANGED <<task, ret, putW>>

\* Stress returns to its caller.
StressReturn(t, e) ==
    /\ task' = [task EXCEPT ![t] = IdleTask]
    /\ ret' = [ret EXCEPT ![t] =
                 [api |-> "Stress", name |-> task[t].name, err |-> e, errNode |-> ""]]

\* case err := <-errc: return err
StressRetErr(t) ==
    /\ Alive
    /\ task[t].pc = "stressSelect"
    /\ stress.pc = "sendErrc"
    /\ stress' = [stress EXCEPT !.pc = "sentErrc"]
    /\ StressReturn(t, stress.val)
    /\ StressFrame
    /\ UNCHANGED putW

\* case <-donec: return nil
StressRetDone(t) ==
    /\ Alive
    /\ task[t].pc = "stressSelect"
    /\ stress.pc = "sendDonec"
    /\ stress' = [stress EXCEPT !.pc = "sentDonec"]
    /\ StressReturn(t, "nil")
    /\ StressFrame
    /\ UNCHANGED putW

\* case <-time.After(5 * time.Second): return fmt.Errorf("Stress timed out!")
StressTimeout(t) ==
    /\ Alive
    /\ task[t].pc = "stressSelect"
    /\ StressReturn(t, "StressTimedOut")
    /\ StressFrame
    /\ UNCHANGED <<stress, putW>>

NextStress ==
    \/ \E t \in Callers, name \in Names \cup {""}, n \in 0..MaxStress : StressCall(t, name, n)
    \/ \E name \in Names \cup {""} : StressDial(name)
    \/ \E i \in Puts : PutDo(i)
    \/ \E i \in Puts : PutTest(i)
    \/ \E i \in Puts : PutEval(i)
    \/ \E i \in Puts : StressRecvErr(i)
    \/ \E i \in Puts : StressRecvDone(i)
    \/ StressFinish
    \/ \E t \in Callers : StressRetErr(t)
    \/ \E t \in Callers : StressRetDone(t)
    \/ \E t \in Callers : StressTimeout(t)

SpecStress == InitTwo /\ [][NextStress]_vars

\* The timer of Stress's select fires five seconds after the call whatever
\* the other goroutines do, and a goroutine that can run does run.
SpecStressFair ==
    /\ SpecStress
    /\ \A t \in Callers : WF_vars(StressTimeout(t))
    /\ \A t \in Callers : WF_vars(StressRetErr(t) \/ StressRetDone(t))
    /\ WF_vars(StressFinish)
    /\ \A name \in Names \cup {""} : WF_vars(StressDial(name))
    /\ \A i \in Puts : WF_vars(PutDo(i) \/ PutTest(i) \/ PutEval(i))
    /\ \A i \in Puts : WF_vars(StressRecvErr(i) \/ StressRecvDone(i))

\* ------------------------------------------------------------ WatchPut
\* The deferred calls of WatchPut leave the subscriptions as they are.
KeepOpen(sub) == sub

\* The deferred calls of WatchPut: cancel() of every subscription's context
\* and Close() of every watch client end every open subscription.
CancelAndClose(sub) ==
    [i \in Watchers |-> IF sub[i] = "open" THEN "closed" ELSE sub[i]]

WatchFrame == UNCHANGED <<nodeVars, cfgVars, rateVars, streamVars, statusVars, envVars, ndRet, pre, hist,
                          bootVars, wg, stress, putW>>

\* A caller invokes c.WatchPut(name, n).
WatchCall(t, name, n) ==
    /\ task[t].pc = "idle"
    /\ task' = [task EXCEPT ![t] =
                  [IdleTask EXCEPT !.api = "WatchPut", !.name = name, !.pc = "watchPut"]]
    /\ watch' = [IdleWatch EXCEPT !.pc = "dial", !.n = n]
    /\ ret' = [ret EXCEPT ![t] = NoRet]
    /\ WatchFrame
    /\ UNCHANGED kv

\* WatchPut returns e: the deferred calls run, if they were registered.
WatchExit(t, e, deferred) ==
    /\ task' = [task EXCEPT ![t] = IdleTask]
    /\ ret' = [ret EXCEPT ![t] =
                 [api |-> "WatchPut", name |-> task[t].name, err |-> e, errNode |-> ""]]
    /\ watch' = [watch EXCEPT !.pc = "idle",
                              !.put = IF deferred THEN e ELSE @,
                              !.sub = IF deferred THEN CancelAndClose(@) ELSE @,
                              !.closed = deferred]

\* c.Endpoints(), the choice of the target and clientv3.New: its error is
\* returned, otherwise the watch clients are made and their Close deferred.
WatchDial(t) ==
    /\ task[t].pc = "watchPut"
    /\ watch.pc = "dial"
    /\ kind = "WebLocal" => mu = "free"
    /\ \E order \in Orders(nameToNode) :
       \E pick \in Picks(task[t].name, EndpointsResult(order).nameToEndpoint) :
          kv' = Resolved("WatchPut", task[t].name, order, pick)
    /\ \/ WatchExit(t, "DialErr", FALSE)
       \/ /\ watch' = [watch EXCEPT !.pc = "subscribe"]
          /\ UNCHANGED <<task, ret>>
    /\ WatchFrame

\* for i := 0; i < watchersN; i++ { ...; defer cancel(); respChs[i] = Watch(ctx, "foo") }
WatchSubscribe(t) ==
    /\ task[t].pc = "watchPut"
    /\ watch.pc = "subscribe"
    /\ watch' = [watch EXCEPT !.pc = "put",
                              !.sub = [i \in Watchers |->
                                         IF i <= watch.n THEN "open" ELSE "none"]]
    /\ UNCHANGED <<task, ret, kv>>
    /\ WatchFrame

\* _, err = kvc.Put(ctx, "foo", "bar"): an error is returned, otherwise the
\* watcher goroutines are started.
WatchTrigger(t) ==
    /\ task[t].pc = "watchPut"
    /\ watch.pc = "put"
    /\ \E r \in PutResults :
          IF r # "nil"
          THEN WatchExit(t, r, TRUE)
          ELSE /\ watch' = [watch EXCEPT !.pc = "wait", !.put = "nil", !.wg = watch.n,
                                         !.w = [i \in Watchers |->
                                                  IF i <= watch.n THEN "select" ELSE "idle"]]
               /\ UNCHANGED <<task, ret>>
    /\ UNCHANGED kv
    /\ WatchFrame

\* One watcher goroutine leaves its select with the outcome given and calls
\* wg.Done().
WatcherEnds(i, outcome) ==
    /\ watch.pc = "wait"
    /\ watch.w[i] = "select"
    /\ watch' = [watch EXCEPT !.w[i] = outcome, !.wg = @ - 1]
    /\ UNCHANGED <<task, ret, kv>>
    /\ WatchFrame

\* case wresp, ok := <-rch with ok
WatcherDelivered(i) == WatcherEnds(i, "delivered")

\* case wresp, ok := <-rch with !ok: "watcher unexpectedly closed"
WatcherClosed(i) == WatcherEnds(i, "unexpectedlyClosed")

\* case <-time.After(3 * time.Second)
WatcherTimedOut(i) == WatcherEnds(i, "timedOut")

\* wg.Wait() returns; return nil
WatchDone(t) ==
    /\ task[t].pc = "watchPut"
    /\ watch.pc = "wait"
    /\ watch.wg = 0
    /\ WatchExit(t, "nil", TRUE)
    /\ UNCHANGED kv
    /\ WatchFrame

NextWatch ==
    \/ \E t \in Callers, name \in Names \cup {""}, n \in 0..MaxWatch : WatchCall(t, name, n)
    \/ \E t \in Callers : WatchDial(t)
    \/ \E t \in Callers : WatchSubscribe(t)
    \/ \E t \in Callers : WatchTrigger(t)
    \/ \E i \in Watchers : WatcherDelivered(i)
    \/ \E i \in Watchers : WatcherClosed(i)
    \/ \E i \in Watchers : WatcherTimedOut(i)
    \/ \E t \in Callers : WatchDone(t)

SpecWatch == InitTwo /\ [][NextWatch]_vars

\* ------------------------------------------------------------ Stream
\* Stream without c.mu.Lock(): the mutex stays free while v is inside.
NotHeld(v) == "free"

\* c.mu while goroutine v is between c.mu.Lock() and the deferred
\* c.mu.Unlock() of Stream.
HeldBy(v) == <<"held", v>>

StreamFrame == UNCHANGED <<nodeVars, cfgVars, rateVars, statusVars, opVars, now, procs, dataDir,
                           task, ret, ndRet, pre, hist, bootVars, wg, panicVars>>

\* c.mu.Lock(); v, ok := c.idToStream[streamID]
StreamLookup(v, id) ==
    /\ streamer[v].pc = "idle"
    /\ mu = "free"
    /\ mu' = HeldBy(v)
    /\ streamer' = [streamer EXCEPT ![v] =
                      [pc |-> "looked", id |-> id, ok |-> id \in DOMAIN idToStream,
                       got |-> IF id \in DOMAIN idToStream THEN idToStream[id] ELSE 0]]
    /\ UNCHANGED <<idToStream, chans, issued>>
    /\ StreamFrame

\* if ok { return v }; the deferred c.mu.Unlock() runs
StreamFound(v) ==
    /\ streamer[v].pc = "looked"
    /\ streamer[v].ok
    /\ mu' = (IF mu = HeldBy(v) THEN "free" ELSE mu)
    /\ streamer' = [streamer EXCEPT ![v].pc = "idle"]
    /\ issued' = issued \cup {<<streamer[v].id, streamer[v].got>>}
    /\ UNCHANGED <<idToStream, chans>>
    /\ StreamFrame

\* ch := make(chan string, 5000); c.idToStream[streamID] = ch; return ch
StreamMake(v) ==
    /\ streamer[v].pc = "looked"
    /\ ~streamer[v].ok
    /\ chans < MaxChans
    /\ chans' = chans + 1
    /\ idToStream' = [x \in DOMAIN idToStream \cup {streamer[v].id} |->
                        IF x = streamer[v].id THEN chans + 1 ELSE idToStream[x]]
    /\ mu' = (IF mu = HeldBy(v) THEN "free" ELSE mu)
    /\ streamer' = [streamer EXCEPT ![v].pc = "idle", ![v].got = chans + 1]
    /\ issued' = issued \cup {<<streamer[v].id, chans + 1>>}
    /\ StreamFrame

NextStream ==
    \/ \E v \in Streamers, id \in StreamIDs : StreamLookup(v, id)
    \/ \E v \in Streamers : StreamFound(v)
    \/ \E v \in Streamers : StreamMake(v)

SpecStream == InitTwo /\ [][NextStream]_vars

\* ------------------------------------------------------------ two callers, one node
\* Two callers use Start, Restart and Terminate on the one node of the
\* cluster at the same time, within one reading of the clock.
NextRace ==
    \/ \E t \in Callers \cup Rivals, api \in {"Start", "Restart", "Terminate"} :
          ClusterCall(t, api, "a")
    \/ \E t \in Callers \cup Rivals : Lookup(t)
    \/ \E t \in Callers \cup Rivals : ReviveStep(t)

SpecRace == Init /\ [][NextRace]_vars

\* ------------------------------------------------------------ panics
\* A panic is raised inside Start, Restart, Terminate or Clean of a
\* NodeWebLocal, at any point of the method.  The deferred function recovers
\* it and sends one line on sharedStream; the method then returns the zero
\* value of its result, a nil error.  Between pmu.Lock() and pmu.Unlock()
\* around Flags.String() the panic leaves the mutex locked.
LocalPanic(t) ==
    LET tk == task[t]
    IN  /\ kind = "WebLocal"
        /\ tk.op \in LifecycleAPIs
        /\ tk.pc \in {"snap", "act", "commit"}
        /\ panics < MaxPanic
        /\ panics' = panics + 1
        /\ lines' = lines + 1
        /\ \/ UNCHANGED mu
           \/ /\ tk.pc = "act"
              /\ tk.op \in {"Start", "Restart"}
              /\ mu = "free"
              /\ mu' = "leaked"
        /\ ndRet' = [ndRet EXCEPT ![t] = [op |-> tk.op, node |-> tk.node, err |-> "nil"]]
        /\ AfterNodeCall(t, "nil")
        /\ UNCHANGED <<nodeVars, cfgVars, rateVars, statusVars, opVars, now, procs, dataDir, pre, hist,
                       bootVars, idToStream, chans, streamer, issued>>

\* A panic is raised inside a method of a NodeWebRemoteClient, which defers
\* nothing: it unwinds defaultCluster.Start/Restart/Terminate/Clean and the
\* goroutine that called it.
RemotePanic(t) ==
    LET tk == task[t]
    IN  /\ kind = "WebRemote"
        /\ tk.op \in LifecycleAPIs
        /\ tk.pc \in {"snap", "act", "commit"}
        /\ panics < MaxPanic
        /\ panics' = panics + 1
        /\ task' = [task EXCEPT ![t] = [tk EXCEPT !.pc = "crashed"]]
        /\ UNCHANGED <<nodeVars, cfgVars, rateVars, statusVars, opVars, envVars, ret, ndRet, pre, hist,
                       bootVars, wg, idToStream, chans, streamer, issued, lines>>

NextPanic ==
    \/ \E t \in Callers, api \in LifecycleAPIs : ClusterCall(t, api, "a")
    \/ \E t \in Callers : Lookup(t)
    \/ \E t \in Callers : NodeStep(t)
    \/ \E t \in Callers : LocalPanic(t)
    \/ \E t \in Callers : RemotePanic(t)

SpecPanic == Init /\ [][NextPanic]_vars

\* ------------------------------------------------------------ both variants, same calls
\* A cluster of one node on which every lifecycle call is compared with what
\* a NodeWebLocal returns for the same calls at the same times.
InitPolicy == InitTracked({"a"}, TRUE)

\* The clock advances between two calls, so that a call has one time.
TickIdle ==
    /\ \A t \in Callers : task[t].pc = "idle"
    /\ Tick

NextPolicy ==
    \/ \E t \in Callers, api \in LifecycleAPIs, name \in Nodes : ClusterCall(t, api, name)
    \/ \E t \in Callers : Lookup(t)
    \/ \E t \in Callers : NodeStep(t)
    \/ TickIdle

SpecPolicy == InitPolicy /\ [][NextPolicy]_vars

\* ------------------------------------------------------------ the request limiter
\* withCache: the first request of a user puts the user into the cache, with
\* requestCount 0 and the zero lastRequestTime.
withCache(u) ==
    /\ u \notin DOMAIN users
    /\ users' = [v \in DOMAIN users \cup {u} |->
                    IF v = u THEN [requestCount |-> 0, lastRequestTime |-> ZeroTime]
                    ELSE users[v]]
    /\ UNCHANGED <<nodeVars, cfgVars, streamVars, statusVars, opVars, envVars, task, ret,
                   ndRet, pre, hist, bootVars, wg, admitted, okRet>>

\* What okToRequest makes of the entry v of a user at the present time: the
\* entry it leaves and the value it returns.
okToRequestOn(v) ==
    LET c == v.requestCount + 1
        last == IF c = 1 THEN now ELSE v.lastRequestTime
    IN  IF c < 5
        THEN [v |-> [requestCount |-> c, lastRequestTime |-> last], ok |-> TRUE]
        ELSE IF now - last > Second
        THEN [v |-> [requestCount |-> 0, lastRequestTime |-> now], ok |-> TRUE]
        ELSE [v |-> [requestCount |-> c, lastRequestTime |-> last], ok |-> FALSE]

\* s.okToRequest(userID), the whole call under s.mu.
okToRequest(u) ==
    /\ okRet.calls < MaxRequests
    /\ IF u \notin DOMAIN users
       THEN /\ okRet' = [userID |-> u, ok |-> FALSE, calls |-> okRet.calls + 1]
            /\ UNCHANGED <<users, admitted>>
       ELSE LET r == okToRequestOn(users[u])
            IN  /\ users' = [users EXCEPT ![u] = r.v]
                /\ okRet' = [userID |-> u, ok |-> r.ok, calls |-> okRet.calls + 1]
                /\ admitted' = IF r.ok THEN [admitted EXCEPT ![u] = Append(@, now)]
                               ELSE admitted
    /\ UNCHANGED <<nodeVars, cfgVars, streamVars, statusVars, opVars, envVars, task, ret,
                   ndRet, pre, hist, bootVars, wg>>

\* Requests of two users, some of them before the user is in the cache, as
\* time passes.
NextRate ==
    \/ \E u \in UserIDs : withCache(u)
    \/ \E u \in UserIDs : okToRequest(u)
    \/ Tick

SpecRate == Init /\ [][NextRate]_vars

\* ------------------------------------------------------------ properties
\* Caller t has returned from the Cluster method api, called on a node of
\* the cluster.
Returned(t, api) ==
    /\ task[t].pc = "idle"
    /\ ret[t].api = api
    /\ ret[t].name \in nameToNode

\* last is a time stamp less than limitInterval before the present.
Recent(last) == last # ZeroTime /\ now - last < limitInterval

\* C1: after a Start that returns nil the node is active, after a Terminate
\* that returns nil it is inactive, and Terminate on a node that no Start or
\* Restart ever succeeded on returns NotActive and leaves it inactive.
C1_ActiveAfterStartTerminate ==
    \A t \in Callers :
       LET n == ret[t].name
       IN  /\ Returned(t, "Start") /\ ret[t].err = "nil" => active[n]
           /\ Returned(t, "Terminate") /\ ret[t].err = "nil" => ~active[n]
           /\ Returned(t, "Terminate") /\ ~pre[t].hist[n].S =>
                 ret[t].err = "NotActive" /\ ~active[n]

\* A Terminate returned nil on a node that a Start had made active.
C1_Witness ==
    \E t \in Callers :
       /\ Returned(t, "Terminate")
       /\ ret[t].err = "nil"
       /\ pre[t].st.active[ret[t].name]
       /\ pre[t].hist[ret[t].name].S

\* C2: Start on a node whose active flag is true returns AlreadyActive and
\* leaves every field of the node as it was; no process is launched.
C2_StartOnActiveChangesNothing ==
    \A t \in Callers :
       Returned(t, "Start") /\ pre[t].st.active[ret[t].name] =>
          /\ ret[t].err = "AlreadyActive"
          /\ NodeState = pre[t].st

\* A Start was rejected on an active node.
C2_Witness ==
    \E t \in Callers :
       /\ Returned(t, "Start")
       /\ pre[t].st.active[ret[t].name]
       /\ ret[t].err = "AlreadyActive"
       /\ PID[ret[t].name] > 0

\* When caller t called, node n was inactive and its last terminate stamp
\* was that of its last successful Terminate.
AfterTerminate(t, n) ==
    /\ ~pre[t].st.active[n]
    /\ pre[t].hist[n].T # ZeroTime
    /\ pre[t].st.lastTerminated[n] = pre[t].hist[n].T

WithinCoolDown(t) ==
    LET n == ret[t].name
    IN  /\ kind = "WebLocal"
        /\ Returned(t, "Restart") \/ Returned(t, "Terminate")
        /\ Recent(pre[t].hist[n].R) \/ Recent(pre[t].hist[n].T)

\* C4 as stated: a Restart or Terminate requested sooner than limitInterval
\* after the node's previous restart or terminate fails with TooSoon.
C4_TooSoonBothWays ==
    \A t \in Callers : WithinCoolDown(t) => ret[t].err = "TooSoon"

\* C4 amended (NodeWebLocal, calls on the node one at a time): such a call
\* never succeeds; it returns TooSoon when the node passes the check of the
\* active flag (inactive for Restart, active for Terminate), and otherwise
\* the error of that check, AlreadyActive or NotActive.
C4_CoolDownRejects ==
    \A t \in Callers :
       LET n == ret[t].name
       IN  WithinCoolDown(t) =>
              ret[t].err =
                 IF ret[t].api = "Restart"
                 THEN (IF pre[t].st.active[n] THEN "AlreadyActive" ELSE "TooSoon")
                 ELSE (IF pre[t].st.active[n] THEN "TooSoon" ELSE "NotActive")

\* A Terminate was rejected as too soon after a Restart.
C4_Witness ==
    \E t \in Callers :
       /\ WithinCoolDown(t)
       /\ ret[t].api = "Terminate"
       /\ Recent(pre[t].hist[ret[t].name].R)
       /\ ret[t].err = "TooSoon"

\* C10: Start, Restart, Terminate and Clean of the cluster return NotFound
\* for a name that is not in nameToNode and change no node; for a name in
\* it they return what the same method of that node returned.
C10_LookupAndDelegate ==
    \A t \in Callers :
       task[t].pc = "idle" /\ ret[t].api \in LifecycleAPIs =>
          IF ret[t].name \notin nameToNode
          THEN /\ ret[t].err = "NotFound"
               /\ NodeState = pre[t].st
               /\ ndRet[t] = NoNdRet
          ELSE /\ ndRet[t].op = ret[t].api
               /\ ndRet[t].node = ret[t].name
               /\ ndRet[t].err = ret[t].err
               /\ ret[t].err # "NotFound"

\* A call with an unknown name returned NotFound while a node was active.
C10_Witness ==
    \E t \in Callers :
       /\ task[t].pc = "idle"
       /\ ret[t].api = "Terminate"
       /\ ret[t].name \notin nameToNode
       /\ ret[t].err = "NotFound"
       /\ \E n \in nameToNode : active[n]

\* ------------------------------------------------------------ Bootstrap, Shutdown
\* Caller t has returned nil from Bootstrap, that is, from the Shutdown
\* Bootstrap ends with.
BootstrapDone(t) ==
    /\ task[t].pc = "idle"
    /\ ret[t].api = "Bootstrap"
    /\ ret[t].err = "nil"

\* The errors the goroutine of Shutdown for node n logged.
ShutdownErrors(n) ==
    {task[ShutWorker(n)].log[i][3] : i \in 1..Len(task[ShutWorker(n)].log)}

\* No call of the last Shutdown failed for a reason outside the program.
NoInducedFailure == \A n \in nameToNode : ShutdownErrors(n) \cap EnvErrors = {}

\* C5: when Bootstrap has collected a success from every node all nodes are
\* active, and when the Shutdown it ends with has returned, with no launch,
\* signal, removal or agent failure, every node is inactive and its data
\* directory is removed.
C5_BootstrapThenShutdown ==
    \A t \in Callers :
       /\ task[t].pc = "waitSignal" => \A n \in nameToNode : active[n]
       /\ BootstrapDone(t) /\ NoInducedFailure =>
             \A n \in nameToNode : ~active[n] /\ ~dataDir[n]

\* C5 on a cluster no Shutdown ran on before Bootstrap: the same as
\* C5_BootstrapThenShutdown, for the clusters whose nodes were never cleaned.
C5_FreshBootstrapThenShutdown ==
    \A t \in Callers :
       /\ task[t].pc = "waitSignal" => \A n \in nameToNode : active[n]
       /\ BootstrapDone(t) /\ NoInducedFailure /\ pre[t].shutN = 0 =>
             \A n \in nameToNode : ~active[n] /\ ~dataDir[n]

\* Bootstrap started every node of a never cleaned cluster and its Shutdown
\* stopped every process and removed every data directory, with a positive
\* limitInterval.
C5_Witness ==
    \E t \in Callers :
       /\ BootstrapDone(t)
       /\ NoInducedFailure
       /\ pre[t].shutN = 0
       /\ limitInterval > 0
       /\ \A n \in nameToNode :
             /\ hist[n].S
             /\ ~active[n]
             /\ ~dataDir[n]
             /\ \A i \in 1..Len(procs[n]) : procs[n][i] # "running"

\* Caller t has returned from Shutdown, called directly or by Bootstrap.
ShutdownReturned(t) ==
    /\ task[t].pc = "idle"
    /\ \/ ret[t].api = "Shutdown"
       \/ ret[t].api = "Bootstrap" /\ ret[t].err = "nil"

\* C7: when Shutdown has returned, the goroutine of every node has finished
\* after one Terminate and then one Clean of its node, and Shutdown returned
\* nil whatever those calls returned.
C7_ShutdownWaitsForAll ==
    \A t \in Callers :
       ShutdownReturned(t) =>
          /\ ret[t].err = "nil"
          /\ wg = 0
          /\ \A n \in nameToNode :
                LET w == task[ShutWorker(n)]
                IN  /\ w.pc = "finished"
                    /\ Len(w.log) = 2
                    /\ w.log[1][1] = "Terminate" /\ w.log[1][2] = n
                    /\ w.log[2][1] = "Clean" /\ w.log[2][2] = n

\* Shutdown returned nil although, for some node, both Terminate and Clean
\* returned an error.
C7_Witness ==
    \E t \in Callers :
       /\ ShutdownReturned(t)
       /\ ret[t].err = "nil"
       /\ \E n \in nameToNode :
             LET w == task[ShutWorker(n)]
             IN  /\ Len(w.log) = 2
                 /\ w.log[1][3] # "nil"
                 /\ w.log[2][3] # "nil"

\* Caller t has returned an error from Bootstrap.
BootstrapFailed(t) ==
    /\ task[t].pc = "idle"
    /\ ret[t].api = "Bootstrap"
    /\ ret[t].err # "nil"

\* C8: when Bootstrap has returned an error, the error is the one the Start
\* of the node it names returned, Bootstrap had not collected a success from
\* every node, received no signal and started no Shutdown, and every node
\* whose Start returned nil is active.
C8_BootstrapFirstError ==
    \A t \in Callers :
       BootstrapFailed(t) =>
          /\ ret[t].errNode \in nameToNode
          /\ LET w == BootWorker(ret[t].errNode)
             IN  /\ task[w].pc = "finished"
                 /\ ndRet[w] = [op |-> "Start", node |-> ret[t].errNode,
                                err |-> ret[t].err]
          /\ bootCn < Cardinality(nameToNode)
          /\ ~signalled
          /\ shutN = pre[t].shutN
          /\ \A n \in nameToNode :
                task[ShutWorker(n)].pc \in {"idle", "finished"}
          /\ \A n \in nameToNode :
                /\ task[BootWorker(n)].pc \in {"sendDone", "finished"}
                /\ ndRet[BootWorker(n)].err = "nil"
                => active[n]

\* Bootstrap returned the error of one node while the Start of the other
\* node had not returned yet.
C8_Witness ==
    \E t \in Callers :
       /\ BootstrapFailed(t)
       /\ \E n \in nameToNode :
             /\ n # ret[t].errNode
             /\ task[BootWorker(n)].pc \in {"snap", "act", "commit"}

\* ------------------------------------------------------------ Revive
\* Caller t has returned from Revive.
ReviveReturned(t) ==
    /\ task[t].pc = "idle"
    /\ ret[t].api = "Revive"

\* The nodes Revive called Restart on, in the order of the calls.
Restarted(t) == {task[t].log[i][2] : i \in 1..Len(task[t].log)}

\* Node n is as it was when caller t made its call.
Untouched(t, n) ==
    /\ active[n] = pre[t].st.active[n]
    /\ PID[n] = pre[t].st.PID[n]
    /\ cmd[n] = pre[t].st.cmd[n]
    /\ lastTerminated[n] = pre[t].st.lastTerminated[n]
    /\ lastRestarted[n] = pre[t].st.lastRestarted[n]
    /\ initialClusterState[n] = pre[t].st.ics[n]
    /\ Len(procs[n]) = pre[t].st.nprocs[n]
    /\ dataDir[n] = pre[t].st.dataDir[n]

\* C9: a Revive called while some node is active returns nil, calls no
\* Restart and leaves every node as it was; a Revive called while no node is
\* active calls Restart on distinct nodes one after the other, every call but
\* the last returned nil, Revive returns what the last call returned, it
\* leaves the nodes it did not reach as they were, and when it returns nil it
\* has restarted every node.
C9_Revive ==
    \A t \in Callers :
       ReviveReturned(t) =>
          LET lg == task[t].log
          IN  /\ (\E n \in nameToNode : pre[t].st.active[n]) =>
                    /\ ret[t].err = "nil"
                    /\ lg = <<>>
                    /\ \A n \in nameToNode : Untouched(t, n)
              /\ ~(\E n \in nameToNode : pre[t].st.active[n]) =>
                    /\ Len(lg) >= 1
                    /\ \A i \in 1..Len(lg) :
                          /\ lg[i][1] = "Restart"
                          /\ lg[i][2] \in nameToNode
                          /\ i < Len(lg) => lg[i][3] = "nil"
                    /\ Cardinality(Restarted(t)) = Len(lg)
                    /\ ret[t].err = lg[Len(lg)][3]
                    /\ \A n \in nameToNode \ Restarted(t) : Untouched(t, n)
                    /\ ret[t].err = "nil" =>
                          /\ Restarted(t) = nameToNode
                          /\ \A n \in nameToNode : active[n]

\* Revive restarted one node, was rejected by the cool-down of the next and
\* returned that error, leaving the first node active.
C9_Witness ==
    \E t \in Callers :
       /\ ReviveReturned(t)
       /\ Len(task[t].log) = 2
       /\ task[t].log[1][3] = "nil"
       /\ task[t].log[2][3] = "TooSoon"
       /\ ret[t].err = "TooSoon"
       /\ active[task[t].log[1][2]]
       /\ ~active[task[t].log[2][2]]

\* A Revive called while one node was active and the other was not returned
\* nil and restarted nothing.
C9_NoOpWitness ==
    \E t \in Callers :
       /\ ReviveReturned(t)
       /\ \E n \in nameToNode : pre[t].st.active[n]
       /\ \E n \in nameToNode : ~pre[t].st.active[n] /\ ~active[n]

\* ------------------------------------------------------------ Status
\* Caller t has returned from Status.
StatusReturned(t) ==
    /\ task[t].pc = "idle"
    /\ ret[t].api = "Status"

\* getStatus for node n sent an error, or a time-out, instead of a status.
ProbeFailed(n) == probe[n].pc = "done" /\ probe[n].err # "nil"

\* C6: the map Status returns has exactly one entry per node of the cluster,
\* under the node's name, whatever each probe did; the entry of a node whose
\* probe failed or timed out has State "unreachable", ID "unknown", no keys,
\* hash 0 and the node's name, and the entry of a node whose probe answered
\* is that answer.
C6_StatusOneEntryPerNode ==
    \A t \in Callers :
       StatusReturned(t) =>
          /\ DOMAIN nameToStatus = nameToNode
          /\ Cardinality(DOMAIN nameToStatus) = Cardinality(nameToNode)
          /\ \A n \in nameToNode :
                /\ nameToStatus[n].Name = n
                /\ ProbeFailed(n) =>
                      /\ nameToStatus[n].State = "unreachable"
                      /\ nameToStatus[n].ID = "unknown"
                      /\ nameToStatus[n].NumberOfKeys = 0
                      /\ nameToStatus[n].Hash = 0
                /\ ~ProbeFailed(n) => nameToStatus[n] = probe[n].stat

\* Status returned while one probe had answered as a leader with keys, and
\* the other had timed out after its first query had answered.
C6_Witness ==
    \E t \in Callers :
       /\ StatusReturned(t)
       /\ \E n, m \in nameToNode :
             /\ ~ProbeFailed(n)
             /\ nameToStatus[n].State = "Leader"
             /\ nameToStatus[n].NumberOfKeys = 1
             /\ ProbeFailed(m)
             /\ probe[m].err = "TimedOut"
             /\ probe[m].stat.State = "Follower"
             /\ nameToStatus[m].State = "unreachable"

\* ------------------------------------------------------------ Stress
\* Caller t has returned from Stress.
StressReturned(t) ==
    /\ task[t].pc = "idle"
    /\ ret[t].api = "Stress"

\* The errors the puts of the burst have returned so far.
FailedPuts == {putW[i].res : i \in 1..stress.n} \ {"none", "nil"}

\* C11: when Stress has returned nil every one of the stressN puts returned
\* nil, and when some put returned an error Stress has not returned nil.
C11_StressAllOrError ==
    \A t \in Callers :
       StressReturned(t) =>
          /\ ret[t].err = "nil" => \A i \in 1..stress.n : putW[i].res = "nil"
          /\ FailedPuts # {} => ret[t].err # "nil"

\* C11 for a burst of one put: with a single put goroutine nothing else
\* writes the shared err between the put and its test.
C11_SinglePut ==
    \A t \in Callers :
       StressReturned(t) /\ stress.n = 1 =>
          /\ ret[t].err = "nil" => putW[1].res = "nil"
          /\ FailedPuts # {} => ret[t].err # "nil"

\* C12: when a put of the burst has failed and Stress has returned otherwise
\* than by its timer, Stress returned the error of a failed put, received
\* from errc before stress had counted stressN completions.
C12_StressFirstError ==
    \A t \in Callers :
       StressReturned(t) /\ ret[t].err # "StressTimedOut" /\ FailedPuts # {} =>
          /\ ret[t].err \in FailedPuts
          /\ stress.pc = "sentErrc"
          /\ stress.cn < stress.n

\* Stress returned the error of one put while the other put of the burst
\* had not been issued yet.
C12_ShortCircuitReached ==
    \E t \in Callers :
       /\ StressReturned(t)
       /\ ret[t].err = "PutErr"
       /\ stress.n = 2
       /\ \E i \in 1..stress.n : putW[i].pc = "put"

\* C13: every call of Stress returns to its caller.
C13_StressReturns ==
    \A t \in Callers :
       (task[t].pc = "stressSelect") ~> (task[t].pc = "idle" /\ ret[t].api = "Stress")

\* C13 for a burst of at least one put: the call returns.
C13_PositiveBurstReturns ==
    \A t \in Callers :
       (task[t].pc = "stressSelect" /\ stress.n >= 1)
          ~> (task[t].pc = "idle" /\ ret[t].api = "Stress")

\* Stress returned its time-out error while both puts of the burst were
\* still outstanding.
C13_TimeoutReached ==
    \E t \in Callers :
       /\ StressReturned(t)
       /\ ret[t].err = "StressTimedOut"
       /\ stress.n = 2
       /\ \A i \in 1..stress.n : putW[i].pc = "put"

\* ------------------------------------------------------------ Status errors
\* C14: in the map Status returned, the entry of every node whose probe
\* answered is that answer, whatever the other probes did; when some probe
\* failed or timed out the error Status returned is the one it received last,
\* and when none did Status returned nil.
C14_StatusErrorAndMap ==
    \A t \in Callers :
       StatusReturned(t) =>
          /\ DOMAIN nameToStatus = nameToNode
          /\ \A n \in nameToNode : ~ProbeFailed(n) => nameToStatus[n] = probe[n].stat
          /\ (\E n \in nameToNode : ProbeFailed(n)) =>
                /\ ret[t].err # "nil"
                /\ \E n \in nameToNode :
                      /\ ProbeFailed(n)
                      /\ ret[t].err = probe[n].err
                      /\ \A m \in nameToNode : ProbeFailed(m) => probe[m].at <= probe[n].at
          /\ ~(\E n \in nameToNode : ProbeFailed(n)) => ret[t].err = "nil"

\* Status returned the error of the probe that failed first together with
\* the answer of the other node, received second.
C14_Witness ==
    \E t \in Callers :
       /\ StatusReturned(t)
       /\ ret[t].err = "RpcErr"
       /\ \E n, m \in nameToNode :
             /\ ProbeFailed(n) /\ probe[n].err = "RpcErr" /\ probe[n].at = 1
             /\ ~ProbeFailed(m) /\ probe[m].at = 2
             /\ nameToStatus[m].State = "Follower"
             /\ nameToStatus[m].Hash = 1

\* Status received two different errors and returned the second.
C14_TwoErrorsReached ==
    \E t \in Callers :
       /\ StatusReturned(t)
       /\ ret[t].err = "TimedOut"
       /\ \E n, m \in nameToNode :
             /\ ProbeFailed(n) /\ probe[n].err = "RpcErr" /\ probe[n].at = 1
             /\ ProbeFailed(m) /\ probe[m].err = "TimedOut" /\ probe[m].at = 2

\* ------------------------------------------------------------ Clean
\* C15: a Clean of a local node that is active returns StillActive and
\* leaves the data directory and the active flag as they were; a Clean of a
\* local node that is inactive removes the data directory unless the removal
\* itself fails, and leaves the node inactive.
C15_CleanNeedsInactive ==
    \A t \in Callers :
       Returned(t, "Clean") /\ kind = "WebLocal" =>
          LET n == ret[t].name
          IN  /\ pre[t].st.active[n] =>
                    /\ ret[t].err = "StillActive"
                    /\ dataDir[n] = pre[t].st.dataDir[n]
                    /\ active[n]
              /\ ~pre[t].st.active[n] =>
                    /\ ret[t].err \in {"nil", "RemoveErr"}
                    /\ ret[t].err = "nil" => ~dataDir[n]
                    /\ ~active[n]

\* A Clean of an active local node, whose data directory exists, returned
\* StillActive.
C15_Witness ==
    \E t \in Callers :
       LET n == ret[t].name
       IN  /\ Returned(t, "Clean")
           /\ kind = "WebLocal"
           /\ pre[t].st.active[n]
           /\ ret[t].err = "StillActive"
           /\ dataDir[n]
           /\ active[n]

\* A Clean of an inactive local node removed the data directory a Start had
\* created.
C15_RemovedReached ==
    \E t \in Callers :
       LET n == ret[t].name
       IN  /\ Returned(t, "Clean")
           /\ kind = "WebLocal"
           /\ ~pre[t].st.active[n]
           /\ pre[t].st.dataDir[n]
           /\ ret[t].err = "nil"
           /\ ~dataDir[n]

\* ------------------------------------------------------------ both variants
\* C16: on a node of either variant, as long as every process, file system
\* and agent call succeeded, every Start, Restart, Terminate and Clean
\* returned what a NodeWebLocal returns for the same calls at the same times,
\* and between calls the active flag is the one of that NodeWebLocal.
C16_SamePolicy ==
    \A n \in nameToNode :
       hist[n].track /\ hist[n].ok =>
          /\ hist[n].agree
          /\ (\A t \in Callers : task[t].pc = "idle") => active[n] = hist[n].sh.active

\* C16 for the local variant alone: a NodeWebLocal agrees with the decisions
\* computed from its three fields.
C16_LocalAgreesWithItself ==
    \A n \in nameToNode :
       kind = "WebLocal" /\ hist[n].track /\ hist[n].ok =>
          /\ hist[n].agree
          /\ (\A t \in Callers : task[t].pc = "idle") => active[n] = hist[n].sh.active

\* A Restart of a remote node returned nil less than limitInterval after the
\* Terminate of the node, where a NodeWebLocal returns TooSoon.
C16_RemoteSkipsCoolDown ==
    \E t \in Callers :
       LET n == ret[t].name
       IN  /\ Returned(t, "Restart")
           /\ kind = "WebRemote"
           /\ hist[n].ok
           /\ ret[t].err = "nil"
           /\ LocalVerdict("Restart", pre[t].hist[n].sh) = "TooSoon"

\* ------------------------------------------------------------ time stamps
\* C17: when a Start, Restart, Terminate or Clean of a local node has
\* returned, lastRestarted differs from what it was at the call only if the
\* call was a Restart that returned nil, and lastTerminated only if it was a
\* Terminate that returned nil.
C17_StampsOnlyOnSuccess ==
    \A t \in Callers, api \in LifecycleAPIs :
       Returned(t, api) /\ kind = "WebLocal" =>
          LET n == ret[t].name
          IN  /\ lastRestarted[n] # pre[t].st.lastRestarted[n] =>
                    api = "Restart" /\ ret[t].err = "nil"
              /\ lastTerminated[n] # pre[t].st.lastTerminated[n] =>
                    api = "Terminate" /\ ret[t].err = "nil"

\* C17 without Clean: Start, Restart and Terminate change a time stamp only
\* when they succeed.
C17_ExceptClean ==
    \A t \in Callers, api \in {"Start", "Restart", "Terminate"} :
       Returned(t, api) /\ kind = "WebLocal" =>
          LET n == ret[t].name
          IN  /\ lastRestarted[n] # pre[t].st.lastRestarted[n] =>
                    api = "Restart" /\ ret[t].err = "nil"
              /\ lastTerminated[n] # pre[t].st.lastTerminated[n] =>
                    api = "Terminate" /\ ret[t].err = "nil"

\* A Clean of an active local node returned StillActive and lastTerminated
\* has become the time of that call.
C17_RejectedCleanStamps ==
    \E t \in Callers :
       LET n == ret[t].name
       IN  /\ Returned(t, "Clean")
           /\ kind = "WebLocal"
           /\ ret[t].err = "StillActive"
           /\ lastTerminated[n] # pre[t].st.lastTerminated[n]
           /\ lastTerminated[n] = pre[t].now

\* ------------------------------------------------------------ target of a request
\* C18: when Put, Get, Delete, stress or WatchPut was called with the empty
\* name while some node was active, every endpoint of its target is the
\* endpoint of a node that was active at that moment.
C18_EmptyNameTargetsActive ==
    kv.api \in {"Put", "Get", "Delete", "Stress", "WatchPut"} /\ kv.name = ""
       /\ (\E n \in nameToNode : kv.activeAt[n]) =>
          /\ kv.target # <<>>
          /\ \A i \in 1..Len(kv.target) :
                \E n \in nameToNode : kv.activeAt[n] /\ kv.target[i] = Endpoint(n)

\* Put, Get or Delete with the empty name has picked a node that was
\* inactive while the other node was active.
C18_InactivePicked ==
    /\ kv.api \in KVAPIs
    /\ kv.name = ""
    /\ kv.pick \in nameToNode
    /\ ~kv.activeAt[kv.pick]
    /\ \E n \in nameToNode : kv.activeAt[n]
    /\ kv.target = <<Endpoint(kv.pick)>>

\* C19: the list that Endpoints() returned holds the endpoint of every node
\* active at the call and of no other node, each once, in ascending order,
\* and the map it returned has every configured node with its endpoint.
C19_EndpointsActiveSorted ==
    kv.api = "Endpoints" =>
       /\ \A n \in nameToNode :
             kv.activeAt[n] <=> \E i \in 1..Len(kv.endpoints) : kv.endpoints[i] = Endpoint(n)
       /\ \A i \in 1..Len(kv.endpoints) :
             \E n \in nameToNode : kv.endpoints[i] = Endpoint(n)
       /\ \A i, j \in 1..Len(kv.endpoints) :
             i < j => EndpointRank(kv.endpoints[i]) < EndpointRank(kv.endpoints[j])
       /\ DOMAIN kv.nameToEndpoint = nameToNode
       /\ \A n \in nameToNode : kv.nameToEndpoint[n] = Endpoint(n)

\* Endpoints() was called with both nodes active and returned both endpoints.
C19_BothActive ==
    /\ kv.api = "Endpoints"
    /\ \A n \in nameToNode : kv.activeAt[n]
    /\ Len(kv.endpoints) = 2

\* Endpoints() was called with one node active and one inactive: the list
\* has one endpoint and the map two.
C19_OneActive ==
    /\ kv.api = "Endpoints"
    /\ \E n, m \in nameToNode : kv.activeAt[n] /\ ~kv.activeAt[m]
    /\ Len(kv.endpoints) = 1
    /\ Cardinality(DOMAIN kv.nameToEndpoint) = 2

\* ------------------------------------------------------------ WatchPut
\* WatchPut has returned to caller t.
WatchReturned(t) ==
    /\ task[t].pc = "idle"
    /\ ret[t].api = "WatchPut"

\* The watcher goroutines WatchPut started.
Started == {i \in Watchers : i <= watch.n}

\* C20 as stated: when WatchPut has returned no subscription is open; if the
\* triggering put failed its error is returned; otherwise the put succeeded,
\* nil is returned and each watcher has delivered an event or timed out.
C20_WatchPutAsStated ==
    \A t \in Callers :
       WatchReturned(t) /\ ret[t].err # "DialErr" =>
          /\ \A i \in Watchers : watch.sub[i] # "open"
          /\ watch.put # "nil" => ret[t].err = watch.put
          /\ watch.put = "nil" =>
                /\ ret[t].err = "nil"
                /\ \A i \in Started : watch.w[i] \in {"delivered", "timedOut"}

\* C20 amended: when WatchPut has returned no subscription is open; if the
\* triggering put failed its error is returned and no watcher was started;
\* otherwise nil is returned and each watcher has ended: it delivered an
\* event, timed out, or found its channel closed.
C20_WatchPutClosesAll ==
    \A t \in Callers :
       WatchReturned(t) =>
          /\ \A i \in Watchers : watch.sub[i] # "open"
          /\ ret[t].err # "DialErr" =>
                /\ watch.closed
                /\ watch.put # "nil" =>
                      /\ ret[t].err = watch.put
                      /\ \A i \in Watchers : watch.w[i] = "idle"
                /\ watch.put = "nil" =>
                      /\ ret[t].err = "nil"
                      /\ \A i \in Started :
                            watch.w[i] \in {"delivered", "timedOut", "unexpectedlyClosed"}

\* WatchPut returned nil with two watchers of which one timed out and one
\* delivered, and both subscriptions are closed.
C20_Witness ==
    \E t \in Callers :
       /\ WatchReturned(t)
       /\ ret[t].err = "nil"
       /\ watch.n = 2
       /\ watch.w[1] = "timedOut"
       /\ watch.w[2] = "delivered"
       /\ \A i \in Started : watch.sub[i] = "closed"

\* WatchPut returned the error of the triggering put and both subscriptions
\* it had opened are closed.
C20_PutFailedReached ==
    \E t \in Callers :
       /\ WatchReturned(t)
       /\ ret[t].err = "PutErr"
       /\ watch.n = 2
       /\ \A i \in Started : watch.sub[i] = "closed"

\* WatchPut returned nil although one of its two watchers found its channel
\* closed, having neither delivered an event nor timed out; both
\* subscriptions are closed.
C20_ClosedEarlyReached ==
    \E t \in Callers :
       /\ WatchReturned(t)
       /\ ret[t].err = "nil"
       /\ watch.n = 2
       /\ watch.w[1] = "unexpectedlyClosed"
       /\ watch.w[2] = "delivered"
       /\ \A i \in Started : watch.sub[i] = "closed"

\* ------------------------------------------------------------ Stream
\* C21: every channel Stream has returned for an identifier is the channel
\* the stream map holds for that identifier now, so a later call returns the
\* same channel and no entry was removed or replaced; two identifiers never
\* have the same channel.
C21_StreamStable ==
    /\ \A p \in issued : p[1] \in DOMAIN idToStream /\ idToStream[p[1]] = p[2]
    /\ \A x, y \in DOMAIN idToStream : x # y => idToStream[x] # idToStream[y]

\* Both identifiers have a channel, and a goroutine got for an identifier the
\* channel that the other goroutine made.
C21_Witness ==
    /\ DOMAIN idToStream = StreamIDs
    /\ \E v, u \in Streamers :
          /\ v # u
          /\ streamer[v].pc = "idle" /\ streamer[v].ok
          /\ streamer[u].pc = "idle" /\ ~streamer[u].ok
          /\ streamer[v].id = streamer[u].id
          /\ streamer[v].got = streamer[u].got
          /\ streamer[v].got # 0

\* ------------------------------------------------------------ active and the process
\* No lifecycle call is in progress.
Quiet == \A t \in Tasks : task[t].pc = "idle"

\* C22: whenever no call is in progress, an active local node's PID is a process
\* that is running, and no process launched for an inactive node is still
\* running without having been signalled.
C22_ActiveIffRunning ==
    Quiet /\ kind = "WebLocal" =>
       \A n \in nameToNode :
          /\ active[n] => PID[n] \in 1..Len(procs[n]) /\ procs[n][PID[n]] = "running"
          /\ ~active[n] => \A i \in 1..Len(procs[n]) : procs[n][i] # "running"

\* The process of a started node has exited without a Terminate call and
\* the node is still active.
C22_ExitedButActive ==
    /\ Quiet
    /\ kind = "WebLocal"
    /\ \E n \in nameToNode :
          /\ active[n]
          /\ PID[n] \in 1..Len(procs[n])
          /\ procs[n][PID[n]] = "exited"
          /\ hist[n].T = ZeroTime

\* Terminate of a node whose process exited on its own has failed on the
\* signal and left the node active.
C22_TerminateFailsAfterExit ==
    \E t \in Callers :
       /\ Returned(t, "Terminate")
       /\ ret[t].err = "KillErr"
       /\ active[ret[t].name]
       /\ procs[ret[t].name][PID[ret[t].name]] = "exited"

\* ------------------------------------------------------------ racing callers
\* The processes launched for node n that run and have not been signalled.
Unsignalled(n) == {i \in 1..Len(procs[n]) : procs[n][i] = "running"}

\* C23: a node never has two launched processes that have not been
\* signalled, and while no call is in progress the PID of an active local
\* node is the only such process.
C23_OneProcessPerNode ==
    \A n \in nameToNode :
       /\ Cardinality(Unsignalled(n)) <= 1
       /\ Quiet /\ kind = "WebLocal" /\ active[n] /\ Unsignalled(n) # {} =>
             Unsignalled(n) = {PID[n]}

\* Two callers have both returned nil from Start on the same node and two
\* processes launched for it are running.
C23_BothStarted ==
    /\ \A t \in Callers \cup Rivals : Returned(t, "Start") /\ ret[t].err = "nil"
    /\ \A t, u \in Callers \cup Rivals : ret[t].name = ret[u].name
    /\ \E t \in Callers : Cardinality(Unsignalled(ret[t].name)) = 2

\* C24: no Restart or Terminate of a local node with limitInterval > 0 has
\* succeeded less than limitInterval after another successful Restart or
\* Terminate of that node.
C24_SuccessesApart ==
    kind = "WebLocal" /\ limitInterval > 0 => \A n \in nameToNode : ~hist[n].near

\* Two callers have both returned nil from Terminate on the same local node
\* with limitInterval > 0.
C24_BothTerminated ==
    /\ kind = "WebLocal"
    /\ limitInterval > 0
    /\ \A t \in Callers \cup Rivals : Returned(t, "Terminate") /\ ret[t].err = "nil"
    /\ \A t, u \in Callers \cup Rivals : ret[t].name = ret[u].name
    /\ \E t \in Callers : hist[ret[t].name].near

\* ------------------------------------------------------------ the mutex
\* C25: when a Start, Restart, Terminate or Clean call has returned, with
\* nil or with any error, the mutex shared by the local nodes is free.
C25_MutexFreeAfterReturn ==
    \A t \in Callers, api \in LifecycleAPIs :
       Returned(t, api) /\ kind = "WebLocal" => mu = "free"

\* C25 for every return except the failure to serialize the flags.
C25_FreeUnlessFlagsErr ==
    \A t \in Callers, api \in LifecycleAPIs :
       Returned(t, api) /\ kind = "WebLocal" /\ ret[t].err # "FlagsErr" => mu = "free"

\* Start has returned the error of Flags.String() and the mutex is still
\* locked.
C25_LockedAfterFlagsErr ==
    \E t \in Callers :
       /\ Returned(t, "Start")
       /\ kind = "WebLocal"
       /\ ret[t].err = "FlagsErr"
       /\ mu = "leaked"

\* ------------------------------------------------------------ workers left behind
\* C26: no goroutine of a burst waits to send on a channel whose only
\* receiver has gone: a put goroutine at its send on errChan or done while
\* stress has left its receive loop, or stress at its send on errc or donec
\* while Stress has returned.  Such a goroutine never terminates.
C26_NoWorkerStuck ==
    Alive =>
       /\ \A i \in Puts :
             putW[i].pc \in {"sendErr", "sendDone"} => stress.pc = "loop"
       /\ stress.pc \in {"sendErrc", "sendDonec"} =>
             \E t \in Callers : task[t].pc = "stressSelect"

\* The same for Bootstrap: no worker waits to send on done or errC while
\* Bootstrap is not in its receive loop.
C26_NoBootWorkerStuck ==
    \A n \in nameToNode :
       task[BootWorker(n)].pc \in {"sendErr", "sendDone"} =>
          \E t \in Callers : task[t].pc = "collect"

\* Stress has returned the error of one put while the other put goroutine
\* waits to send on done, which nobody receives from any more.
C26_PutStuckAfterError ==
    \E t \in Callers, i \in Puts :
       /\ StressReturned(t)
       /\ ret[t].err = "PutErr"
       /\ stress.pc = "sentErrc"
       /\ putW[i].pc = "sendDone"

\* Stress has returned on its timer and stress waits to send on donec.
C26_StressStuckAfterTimeout ==
    \E t \in Callers :
       /\ StressReturned(t)
       /\ ret[t].err = "StressTimedOut"
       /\ stress.pc = "sendDonec"

\* ------------------------------------------------------------ one signal per probe
\* Every probe has delivered no signal while it runs and one signal, on sc
\* or on errc, once it has ended (on errc exactly when it failed), and
\* Status has counted as many signals as probes have ended.
OneSignalEach ==
    /\ \A n \in nameToNode :
          /\ Len(probe[n].sigs) <= 1
          /\ probe[n].pc = "done" <=> Len(probe[n].sigs) = 1
          /\ probe[n].pc = "done" =>
                (probe[n].sigs = <<"errc">> <=> probe[n].err # "nil")
    /\ \A t \in Callers :
          task[t].pc = "statusCollect" =>
             statusCn = Cardinality({n \in nameToNode : probe[n].pc = "done"})
    /\ \A t \in Callers :
          StatusReturned(t) => \A n \in nameToNode : Len(probe[n].sigs) = 1

\* C27: each probe delivers exactly one signal in total, on one of the two
\* channels, whatever its dial and its three queries return; Status counts
\* each probe once, and a Status call that is collecting returns.
C27_OneSignalPerProbe ==
    /\ []OneSignalEach
    /\ \A t \in Callers : (task[t].pc = "statusCollect") ~> StatusReturned(t)

\* Status has returned after one probe delivered its status on sc and the
\* other an error of its third query on errc.
C27_Witness ==
    \E t \in Callers, n, m \in nameToNode :
       /\ StatusReturned(t)
       /\ probe[n].sigs = <<"sc">>
       /\ probe[m].sigs = <<"errc">>
       /\ probe[m].stat.Hash \in HashAnswers
       /\ probe[m].stat.ID # "unknown"

\* ------------------------------------------------------------ panics
\* C28: no panic raised inside Start, Restart, Terminate or Clean has
\* reached the goroutine that called the operation, and every panic raised
\* so far has put exactly one line on the shared stream.
C28_PanicCaught ==
    /\ \A t \in Tasks : task[t].pc # "crashed"
    /\ lines = panics

\* C28 for the local variant alone.
C28_LocalPanicCaught ==
    kind = "WebLocal" =>
       /\ \A t \in Tasks : task[t].pc # "crashed"
       /\ lines = panics

\* A panic inside a method of a remote node has unwound its caller and no
\* line was written.
C28_RemotePanicPropagates ==
    /\ kind = "WebRemote"
    /\ \E t \in Callers : task[t].pc = "crashed"
    /\ panics = 1
    /\ lines = 0

\* Two panics inside methods of a local node were recovered: two lines are
\* on the stream and the caller has its return value.
C28_LocalRecovered ==
    /\ kind = "WebLocal"
    /\ panics = 2
    /\ lines = 2
    /\ \E t \in Callers : Returned(t, "Terminate") /\ ret[t].err = "nil"

\* ------------------------------------------------------------ Shutdown, any history
\* C29: when Shutdown has returned, and no signal, removal or agent call of
\* it failed, every node is inactive and its data directory is removed.
C29_ShutdownLeavesAllDown ==
    \A t \in Callers :
       task[t].pc = "idle" /\ ret[t].api = "Shutdown" /\ NoInducedFailure =>
          \A n \in nameToNode : ~active[n] /\ ~dataDir[n]

\* C29 for the nodes on which no Restart succeeded and no Clean ran less
\* than limitInterval before Shutdown was called.
C29_DownUnlessCoolingDown ==
    \A t \in Callers :
       task[t].pc = "idle" /\ ret[t].api = "Shutdown" /\ NoInducedFailure =>
          \A n \in nameToNode :
             "TooSoon" \notin ShutdownErrors(n) => ~active[n] /\ ~dataDir[n]

\* Shutdown has returned nil and left a local node active with its data
\* directory: the node was restarted less than limitInterval before, never
\* terminated or cleaned, and Shutdown's Terminate was refused as too soon.
C29_RestartedThenShutdown ==
    \E t \in Callers, n \in nameToNode :
       /\ task[t].pc = "idle"
       /\ ret[t].api = "Shutdown"
       /\ ret[t].err = "nil"
       /\ pre[t].shutN = 0
       /\ pre[t].st.lastTerminated[n] = ZeroTime
       /\ pre[t].st.lastRestarted[n] # ZeroTime
       /\ pre[t].now - pre[t].st.lastRestarted[n] < limitInterval
       /\ task[ShutWorker(n)].log[1] = <<"Terminate", n, "TooSoon">>
       /\ task[ShutWorker(n)].log[2] = <<"Clean", n, "StillActive">>
       /\ active[n]
       /\ dataDir[n]

\* ------------------------------------------------------------ Revive, repeated
\* Some node is active and some node is not. Revive returns nil from its
\* first loop as soon as it meets an active node, so a Revive called in this
\* state restarts nothing (C9): calling Revive again and again never brings
\* the inactive nodes up.
PartlyRevived ==
    /\ \E n \in nameToNode : active[n]
    /\ \E n \in nameToNode : ~active[n]

\* Every Restart the Revive of caller t made returned nil or an error of the
\* node's own checks: no launch and no flags serialization failed.
LaunchesSucceeded(t) ==
    \A i \in 1..Len(task[t].log) : task[t].log[i][3] \notin EnvErrors

\* C30: a Revive called while every node is inactive, and whose launches all
\* succeed, never leaves the cluster with some nodes active and others not,
\* the state from which later calls of Revive restart nothing; so repeated
\* calls of Revive eventually make every node active, also when one call
\* stops early on a node that is still cooling down.
C30_ReviveRestoresAll ==
    \A t \in Callers :
       /\ ReviveReturned(t)
       /\ \A n \in nameToNode : ~pre[t].st.active[n]
       /\ LaunchesSucceeded(t)
       => ~PartlyRevived

\* C30 for the calls of Revive that return nil: every node is active.
C30_AllUpWhenNil ==
    \A t \in Callers :
       /\ ReviveReturned(t)
       /\ \A n \in nameToNode : ~pre[t].st.active[n]
       /\ ret[t].err = "nil"
       => \A n \in nameToNode : active[n]

\* A Revive called while one node was active returned nil and left another
\* node inactive although that node's cool-down had run out: the node was
\* terminated at least limitInterval before and never restarted, so the
\* Restart Revive did not make would have succeeded.
C30_StuckPartlyRevived ==
    \E t \in Callers, n \in nameToNode :
       /\ ReviveReturned(t)
       /\ ret[t].err = "nil"
       /\ task[t].log = <<>>
       /\ \E m \in nameToNode : pre[t].st.active[m] /\ active[m]
       /\ ~pre[t].st.active[n]
       /\ ~active[n]
       /\ lastTerminated[n] # ZeroTime
       /\ now - lastTerminated[n] >= limitInterval
       /\ lastRestarted[n] = ZeroTime
       /\ limitInterval > 0

\* ------------------------------------------------------------ recovery
\* The process of local node n has exited and been reaped, the node is still
\* active, and no Terminate that signalled the process before it exited is
\* about to commit. Start and Restart return at their check of active,
\* Terminate at syscall.Kill, Clean at its check of active, Revive at its
\* first loop: none of them writes active or PID.
Wedged(n) ==
    /\ kind = "WebLocal"
    /\ active[n]
    /\ PID[n] \in 1..Len(procs[n])
    /\ procs[n][PID[n]] = "exited"
    /\ \A t \in Tasks : task[t].node = n => task[t].pc # "commit"

\* Local node n is active and its process runs.
Recovered(n) ==
    /\ active[n]
    /\ PID[n] \in 1..Len(procs[n])
    /\ procs[n][PID[n]] = "running"

\* C31: a local node is never in a state that no sequence of Start, Restart,
\* Terminate and Clean calls leaves: in particular it is never active with
\* a process that has exited and that no call in progress is about to
\* account for.
C31_Recoverable == \A n \in nameToNode : ~Wedged(n)

\* No step of the program, of the clock or of a process takes a wedged node
\* out of that state, whatever is called and however long the caller waits.
C31_WedgedForEver == [][\A n \in nameToNode : Wedged(n) => Wedged(n)']_vars

\* A wedged node is not active with a running process.
C31_WedgedNotRecovered == \A n \in nameToNode : Wedged(n) => ~Recovered(n)

\* Restart of a node whose process exited on its own was refused as already
\* active, with no cool-down pending and no call in progress: the node stays
\* active without a process.
C31_RestartRefusedAfterExit ==
    \E t \in Callers :
       /\ Quiet
       /\ Returned(t, "Restart")
       /\ ret[t].err = "AlreadyActive"
       /\ Wedged(ret[t].name)
       /\ hist[ret[t].name].T = ZeroTime
       /\ ~Recent(lastRestarted[ret[t].name])
       /\ ~Recent(lastTerminated[ret[t].name])
       /\ mu = "free"

\* ------------------------------------------------------------ the request limiter
\* The number of calls of okToRequest for user u that returned true at a
\* time from i up to, and not including, i + Second.
AdmittedFrom(u, i) ==
    Cardinality({k \in 1..Len(admitted[u]) :
                    admitted[u][k] >= i /\ admitted[u][k] < i + Second})

\* C32: okToRequest returns true for at most 5 calls of one user in any
\* interval of one second, and returns false for a user id that is not in
\* the cache.
C32_AtMostFivePerSecond ==
    /\ \A u \in UserIDs, i \in 0..MaxTime : AdmittedFrom(u, i) <= 5
    /\ okRet.calls > 0 /\ okRet.userID \notin DOMAIN users => ~okRet.ok

\* C32 with the number the code keeps to: 3 calls at the end of one round
\* of counting, the call that resets the count, and 4 calls of the next
\* round.
C32_AtMostEightPerSecond ==
    \A u \in UserIDs, i \in 0..MaxTime : AdmittedFrom(u, i) <= 8

\* C32 for a user id that is not in the cache: the call returns false and
\* nothing is admitted for it.
C32_UnknownRefused ==
    /\ okRet.calls > 0 /\ okRet.userID \notin DOMAIN users => ~okRet.ok
    /\ \A u \in UserIDs \ DOMAIN users : admitted[u] = <<>>

\* One user was admitted more than a second before and then 8 times at one
\* time: the calls numbered 2 to 4, the fifth call, which reset the count,
\* and the 4 calls after it.
C32_EightAtOnce ==
    \E u \in DOMAIN users :
       /\ Len(admitted[u]) = 9
       /\ now - admitted[u][1] > Second
       /\ \A k \in 2..9 : admitted[u][k] = now
       /\ users[u].requestCount = 4

====
